---- MODULE Spec2Model ----
(***************************************************************************)
(* Model of the remux job pipeline of src/video-processor.js (class        *)
(* VideoProcessor) together with the row-creating endpoint                 *)
(* POST /confirm-upload of src/index.js.                                   *)
(*                                                                         *)
(* Node.js runs the code cooperatively: everything between two `await`s    *)
(* is one atomic step.  Every action below is the completion of one        *)
(* awaited operation (its effect on the store, the bucket or the scratch   *)
(* directory) followed by the synchronous code up to the next await.       *)
(*                                                                         *)
(* Jobs are numbered 1..n in created_at order; job j's video_url (its      *)
(* object key) is j.  Timestamps are abstracted to the string "ts".        *)
(* Error messages are sequences of words.                                  *)
(***************************************************************************)
EXTENDS Integers, Sequences, FiniteSets, TLC

VARIABLES
    rows,       \* packing_records: job id -> row
    storage,    \* R2 bucket: key -> object
    scratch,    \* tempDir: existing file <<"input"|"output", id>> -> its size
    stats,      \* this.stats
    cycles,     \* running processVideos() calls: slot -> cycle
    ticksLeft,  \* scheduler ticks still to fire
    resetsLeft, \* external resets of remux_status still to happen
    directLeft, \* direct processVideo(video) calls still to happen
    faults,     \* the operations the environment may fail in this behaviour
    failedBy,   \* history: job id -> attemptNumber of the run that last wrote failed (0: none)
    ffmpegFails, \* history: job id -> number of runs whose executeFFmpeg rejected
    proc,       \* the Node.js process: alive or exited, exit code, what it printed
    web,        \* the upload server: clock, requestCounts, last response, accepted calls
    tool        \* the last ffmpeg child process: what it returned, what executeFFmpeg made of it

vars == <<rows, storage, scratch, stats, cycles, ticksLeft, resetsLeft, directLeft, faults, failedBy, ffmpegFails, proc, web, tool>>

----------------------------------------------------------------------------
\* Program constants

AttemptCap == 3
UploadUrlLimit == 60     \* checkRateLimit(..., 60, 1) in POST /get-upload-url
UploadUrlWindow == 1     \* minutes
DefaultLimit == 10       \* checkRateLimit's limit when the caller passes none
TruncateAt == 500        \* errorMessage.substring(0, 500)
BatchSize == 3
QueryLimit == 5
MinDuration == 1

\* Bounds of the model

MaxJobs == 5      \* rows of a batch (SpecBatch)
PageJobs == 4     \* rows of a page that needs two groups (SpecPage)
SeqTicks == 3     \* scheduler ticks when cycles do not overlap (SpecSeq)
SeqResets == 2    \* external resets when cycles do not overlap (SpecSeq)
MaxCycles == 2    \* processVideos calls running at once (Spec)
MaxTicks == 2     \* scheduler ticks when cycles overlap (Spec)
MaxResets == 1    \* external resets when cycles overlap (Spec)
MaxDirect == 2    \* direct processVideo calls (SpecDirect)
StaleTicks == 3   \* scheduler ticks when a cycle outlives another (SpecStale)
MaxOutput == 3    \* lines a process prints before it is stopped (SpecProcess)
MaxRows == 2      \* rows in the table once uploads are confirmed (SpecUpload)
ClockStep == 30000 \* milliseconds between two readings of the clock (SpecRate)
MaxNow == 60000   \* last reading of the clock (SpecRate)

\* durations (seconds) a client reports: 0 = missing, 1 = the boundary, 45 = a real clip
Durations == {0, 1, 45}
\* sizes (bytes) of an uploaded object and of a remuxed file: smaller or larger than the input
InputSize == 2
OutputSizes == {InputSize - 1, InputSize + 1}

AllFaults == {"query", "store", "head", "get", "probe", "ffmpeg", "put"}

----------------------------------------------------------------------------
\* Error messages, as sequences of words

MsgNotFound == <<"File", "not", "found", "after", "3", "attempts">>
MsgFFmpeg == <<"FFmpeg", "failed:", "diagnostic">>
MsgDownload == <<"Command", "failed:", "curl">>
MsgENOENT == <<"ENOENT:", "no", "such", "file", "or", "directory">>
MsgUpload == <<"upload", "failed">>
MsgStore == <<"fetch", "failed">>
NoError == <<>>

\* String.prototype.includes on word sequences
Includes(msg, part) ==
    \E i \in 0..(Len(msg) - Len(part)) :
        \A k \in 1..Len(part) : msg[i + k] = part[k]

\* {...base, ...upd}: object spread, later keys win
Merge(base, upd) == upd @@ base

----------------------------------------------------------------------------
\* POST /confirm-upload: the row inserted for a confirmed upload

\* mutant: the boundary of the endpoint's test compared strictly
ConfirmUploadStatus_Strict(duration) ==
    IF duration # 0 /\ duration < MinDuration THEN "skipped" ELSE "pending"

\* duration && duration <= 1 ? 'skipped' : 'pending'
ConfirmUploadStatus(duration) ==
    IF duration # 0 /\ duration <= MinDuration THEN "skipped" ELSE "pending"

ConfirmUpload(id, fileSize, duration) ==
    [ id |-> id,
      video_url |-> id,
      video_size |-> fileSize,
      video_duration |-> duration,
      created_at |-> id,      \* set by the table as rows are inserted
      status |-> "completed",
      remux_status |-> ConfirmUploadStatus(duration),
      remux_attempts |-> 0,
      remuxed_at |-> FALSE,
      remuxed_size |-> 0,
      metadata |-> [started_at |-> "ts", ended_at |-> "ts", uploaded_from |-> "worker_app"] ]

----------------------------------------------------------------------------
\* The discovery query of processVideos

\* mutant: the query forgets the minimum duration
Eligible_AnyDuration(r) ==
    /\ r.status = "completed"
    /\ r.remux_status = "pending"
    /\ r.remux_attempts < AttemptCap

\* mutant: the query forgets that a job must be pending
Eligible_AnyStatus(r) ==
    /\ r.status = "completed"
    /\ r.remux_attempts < AttemptCap
    /\ r.video_duration > MinDuration

\* mutant: the query forgets the cap on the attempts
Eligible_AnyAttempts(r) ==
    /\ r.status = "completed"
    /\ r.remux_status = "pending"
    /\ r.video_duration > MinDuration

Eligible(r) ==
    /\ r.status = "completed"
    /\ r.remux_status = "pending"
    /\ r.remux_attempts < AttemptCap
    /\ r.video_duration > MinDuration

\* mutant: the page is ordered newest first
RECURSIVE SortedIds_Descending(_)
SortedIds_Descending(S) ==
    IF S = {} THEN <<>>
    ELSE LET m == CHOOSE x \in S : \A y \in S : rows[x].created_at >= rows[y].created_at
         IN <<m>> \o SortedIds_Descending(S \ {m})

\* .order('created_at', { ascending: true }): the ids of S, oldest row first
RECURSIVE SortedIds(_)
SortedIds(S) ==
    IF S = {} THEN <<>>
    ELSE LET m == CHOOSE x \in S : \A y \in S : rows[x].created_at <= rows[y].created_at
         IN <<m>> \o SortedIds(S \ {m})

Limit(s, n) == SubSeq(s, 1, IF Len(s) < n THEN Len(s) ELSE n)

QueryResult ==
    LET ids == Limit(SortedIds({j \in DOMAIN rows : Eligible(rows[j])}), QueryLimit)
    IN [k \in 1..Len(ids) |-> rows[ids[k]]]

----------------------------------------------------------------------------
\* processVideo(video): the synchronous prefix up to the first await

\* mutant: the boundary of the pre-check compared strictly
PreCheckSkips_Strict(video) ==
    video.video_duration # 0 /\ video.video_duration < MinDuration

\* if (video.video_duration && video.video_duration <= 1)
PreCheckSkips(video) ==
    video.video_duration # 0 /\ video.video_duration <= MinDuration

\* mutant: the run goes to the existence check without claiming the row
FirstStep_NoClaim(video) == IF PreCheckSkips(video) THEN "w_skip" ELSE "head"

\* lines 140-161: the first await of processVideo is the skip write or the claim
FirstStep(video) == IF PreCheckSkips(video) THEN "w_skip" ELSE "w_claim"

NewTask(video) ==
    [ video |-> video,
      attemptNumber |-> video.remux_attempts + 1,
      pc |-> FirstStep(video),
      inputSize |-> 0,
      outputSize |-> 0,
      body |-> 0,
      actualDuration |-> video.video_duration,
      error |-> NoError,
      after |-> "fulfilled",
      result |-> "pending",
      outcome |-> "none",
      thrownAt |-> "none",
      written |-> <<>> ]

\* stats.skipped++ happens in the prefix, before the skip write is awaited
PrefixSkips(batch) == Cardinality({k \in 1..Len(batch) : PreCheckSkips(batch[k].video)})

Settled(t) == t.result # "pending"

----------------------------------------------------------------------------
\* Helpers on the state

Task(c, k) == cycles[c].tasks[k]

At(c, k, pc) ==
    /\ proc.alive
    /\ cycles[c].pc = "run"
    /\ k \in 1..Len(cycles[c].tasks)
    /\ ~Settled(Task(c, k))
    /\ Task(c, k).pc = pc

SetTask(c, k, t) == cycles' = [cycles EXCEPT ![c].tasks[k] = t]

\* supabase .update(upd).eq('id', id): the listed columns are replaced
Update(id, upd) == rows' = [rows EXCEPT ![id] = Merge(@, upd)]

\* history: the remux_status values the run has written, in order
Wrote(t, upd) == [t EXCEPT !.written = Append(@, upd.remux_status)]

InputFile(t) == <<"input", t.video.id>>
OutputFile(t) == <<"output", t.video.id>>

Exists(f) == f \in DOMAIN scratch
WriteFile(f, size) == (f :> size) @@ scratch
\* mutant: cleanup leaves the file where it is
Unlink_Keep(f) == scratch

\* fs.unlink(file), an error of which cleanup ignores
Unlink(f) == [x \in DOMAIN scratch \ {f} |-> scratch[x]]

\* mutants: the attempt cap compared off by one, either way
ShouldMarkFailed_Late(attemptNumber) == attemptNumber > AttemptCap
ShouldMarkFailed_Early(attemptNumber) == attemptNumber >= AttemptCap - 1

\* the catch block of processVideo decides between markAsFailed and giving up for now
ShouldMarkFailed(attemptNumber) == attemptNumber >= AttemptCap

\* an error thrown inside the try block: catch (stats.failed++ is done by the action)
Caught(t, at, msg) ==
    [t EXCEPT !.error = msg,
              !.thrownAt = at,
              !.outcome = IF ShouldMarkFailed(t.attemptNumber) THEN @ ELSE "retry",
              !.pc = IF ShouldMarkFailed(t.attemptNumber) THEN "w_failed" ELSE "unlink_in"]

\* an error thrown outside the try block: processVideo rejects at once
Rejected(t, at) ==
    [t EXCEPT !.error = MsgStore, !.thrownAt = at, !.result = "rejected", !.pc = "done"]

StatsFailed == stats' = [stats EXCEPT !.failed = @ + 1]

----------------------------------------------------------------------------
\* The columns each write of processVideo sends

\* mutant: the skip counts as an attempt
SkipUpdate_Counted(t) ==
    [ remux_status |-> "skipped",
      remux_attempts |-> t.attemptNumber,
      metadata |-> Merge(t.video.metadata,
                         [skip_reason |-> "duration_too_short", skipped_at |-> "ts"]) ]

SkipUpdate(t) ==
    [ remux_status |-> "skipped",
      metadata |-> Merge(t.video.metadata,
                         [skip_reason |-> "duration_too_short", skipped_at |-> "ts"]) ]

\* mutant: the claim forgets to count the attempt
ClaimUpdate_NoIncrement(t) ==
    [ remux_status |-> "processing",
      remux_attempts |-> t.video.remux_attempts,
      metadata |-> Merge(t.video.metadata, [last_remux_attempt |-> "ts"]) ]

ClaimUpdate(t) ==
    [ remux_status |-> "processing",
      remux_attempts |-> t.attemptNumber,
      metadata |-> Merge(t.video.metadata, [last_remux_attempt |-> "ts"]) ]

\* mutant: the recorded duration is stored in place of the probed one
ProbeSkipUpdate_Recorded(t) ==
    [ remux_status |-> "skipped",
      metadata |-> Merge(t.video.metadata,
                         [skip_reason |-> "duration_too_short",
                          detected_duration |-> t.video.video_duration,
                          skipped_at |-> "ts"]) ]

ProbeSkipUpdate(t) ==
    [ remux_status |-> "skipped",
      metadata |-> Merge(t.video.metadata,
                         [skip_reason |-> "duration_too_short",
                          detected_duration |-> t.actualDuration,
                          skipped_at |-> "ts"]) ]

\* mutant: the absolute value the log lines print is stored
SavedBytes_Abs(t) ==
    IF t.inputSize >= t.outputSize THEN t.inputSize - t.outputSize
    ELSE t.outputSize - t.inputSize

SavedBytes(t) == t.inputSize - t.outputSize

\* ((savedBytes / inputStats.size) * 100).toFixed(2): a string; the integer part is
\* exact for the sizes of the model, and a division by 0 is not an error in JavaScript
SavedPercent(t) ==
    IF t.inputSize = 0
    THEN IF SavedBytes(t) = 0 THEN "NaN" ELSE "-Infinity"
    ELSE ToString((SavedBytes(t) * 100) \div t.inputSize)

CompletedUpdate(t) ==
    [ remux_status |-> "completed",
      remuxed_at |-> TRUE,
      remuxed_size |-> t.outputSize,
      metadata |-> Merge(t.video.metadata,
                         [remux_processing_time_ms |-> "ms",
                          original_size |-> t.inputSize,
                          size_saved |-> SavedBytes(t),
                          compression_ratio |-> SavedPercent(t),
                          detected_duration |-> t.actualDuration]) ]

\* mutant: the terminal write after a failure stamps remuxed_at as well
FailedUpdate_Stamped(existingMetadata, reason) ==
    [ remux_status |-> "failed",
      remux_attempts |-> 3,
      remuxed_at |-> TRUE,
      metadata |-> Merge(existingMetadata, [remux_error |-> reason, failed_at |-> "ts"]) ]

\* mutant: the terminal write after a failure marks the job skipped
FailedUpdate_Skipped(existingMetadata, reason) ==
    [ remux_status |-> "skipped",
      remux_attempts |-> 3,
      metadata |-> Merge(existingMetadata, [remux_error |-> reason, failed_at |-> "ts"]) ]

\* markAsFailed(videoId, existingMetadata, reason)
FailedUpdate(existingMetadata, reason) ==
    [ remux_status |-> "failed",
      remux_attempts |-> 3,
      metadata |-> Merge(existingMetadata, [remux_error |-> reason, failed_at |-> "ts"]) ]

\* checkR2File: HEAD succeeded and ContentLength > 0
HeadOk(key) == storage[key].present /\ storage[key].size > 0

\* mutant: any error of the child process rejects, whatever it printed
FFmpegRejects_AnyError(exit, marker) == exit # 0

\* executeFFmpeg rejects
FFmpegRejects(exit, marker) == exit # 0 /\ ~marker

\* 'muxing overhead'
Marker == <<"m", "u", "x", "i", "n", "g", " ", "o", "v", "e", "r", "h", "e", "a", "d">>

\* 'FFmpeg failed: '
FailedPrefix == <<"F", "F", "m", "p", "e", "g", " ", "f", "a", "i", "l", "e", "d", ":", " ">>

\* a || b on strings: the empty string is falsy
OrText(a, b) == IF a # <<>> THEN a ELSE b

\* String.prototype.substring(0, n)
Substring(s, n) == SubSeq(s, 1, IF Len(s) < n THEN Len(s) ELSE n)

\* error.code of a child that was killed instead of exiting: null, which is !== 0
NullCode == 0 - 1

\* the callback of exec in executeFFmpeg: error is set when code is not 0
ExecCallback(code, stdout, stderr, errorMessage) ==
    IF FFmpegRejects(code, Includes(stdout, Marker))
    THEN [rejected |-> TRUE,
          message |-> FailedPrefix \o Substring(OrText(stderr, OrText(stdout, errorMessage)), TruncateAt)]
    ELSE [rejected |-> FALSE, message |-> <<>>]

Pad(n, char) == [i \in 1..n |-> char]

\* what ffmpeg can have printed (2>&1 puts it all on stdout): nothing, short or
\* long text, with the marker, with all but its last letter, or without it
Outputs ==
    {Pad(a, ".") \o mid \o Pad(b, ".") :
        a \in {0, 1, TruncateAt - Len(Marker), TruncateAt},
        mid \in {<<>>, Marker, SubSeq(Marker, 1, Len(Marker) - 1)},
        b \in {0, 1, TruncateAt}}

\* exit codes of the shell running ffmpeg (137: ffmpeg killed), or none
ExitCodes == {0, 1, 137, NullCode}

\* the ffmpeg child ends and executeFFmpeg settles
FFmpegEnds(code, stdout, stderr, errorMessage) ==
    /\ tool' = [code |-> code, stdout |-> stdout, stderr |-> stderr, errorMessage |-> errorMessage,
                result |-> ExecCallback(code, stdout, stderr, errorMessage)]
    /\ tool' # tool
    /\ UNCHANGED <<rows, storage, scratch, stats, cycles, ticksLeft, resetsLeft, directLeft, faults, failedBy, ffmpegFails, proc, web>>

----------------------------------------------------------------------------
\* processVideo, one action per await

\* line 145: the pre-check's skip write, outside the try block
WriteSkip(c, k) ==
    /\ At(c, k, "w_skip")
    /\ LET t == Task(c, k) IN
       \/ /\ Update(t.video.id, SkipUpdate(t))
          /\ SetTask(c, k, [Wrote(t, SkipUpdate(t)) EXCEPT
                               !.result = "fulfilled", !.outcome = "skipped", !.pc = "done"])
       \/ /\ "store" \in faults
          /\ SetTask(c, k, Rejected(t, "w_skip"))
          /\ UNCHANGED rows
    /\ UNCHANGED <<storage, scratch, stats, ticksLeft, resetsLeft, directLeft, faults, failedBy, ffmpegFails, proc, web, tool>>

\* mutant: the claim is conditional on the row still being pending
ClaimMatches_Pending(row, t) == row.id = t.video.id /\ row.remux_status = "pending"

\* .eq('id', video.id): the rows the claim's update applies to
ClaimMatches(row, t) == row.id = t.video.id

\* line 161: the claim, outside the try block; then checkR2File is called
WriteClaim(c, k) ==
    /\ At(c, k, "w_claim")
    /\ LET t == Task(c, k) IN
       \/ /\ IF ClaimMatches(rows[t.video.id], t)
             THEN Update(t.video.id, ClaimUpdate(t))
             ELSE UNCHANGED rows
          /\ SetTask(c, k, [Wrote(t, ClaimUpdate(t)) EXCEPT !.pc = "head"])
       \/ /\ "store" \in faults
          /\ SetTask(c, k, Rejected(t, "w_claim"))
          /\ UNCHANGED rows
    /\ UNCHANGED <<storage, scratch, stats, ticksLeft, resetsLeft, directLeft, faults, failedBy, ffmpegFails, proc, web, tool>>

\* line 179: checkR2File answers (an error of the HEAD request is "not there")
CheckR2File(c, k) ==
    /\ At(c, k, "head")
    /\ LET t == Task(c, k) IN
       \E exists \in {HeadOk(t.video.video_url)} \cup (IF "head" \in faults THEN {FALSE} ELSE {}) :
          IF exists
          THEN SetTask(c, k, [t EXCEPT !.pc = "get"])
          ELSE IF ShouldMarkFailed(t.attemptNumber)
               THEN SetTask(c, k, [t EXCEPT !.pc = "w_failed_nf", !.error = MsgNotFound])
               ELSE SetTask(c, k, [t EXCEPT !.pc = "unlink_in", !.outcome = "notfound"])
    /\ UNCHANGED <<rows, storage, scratch, stats, ticksLeft, resetsLeft, directLeft, faults, failedBy, ffmpegFails, proc, web, tool>>

\* line 186: markAsFailed for a file not found, inside the try block
WriteFailedNotFound(c, k) ==
    /\ At(c, k, "w_failed_nf")
    /\ LET t == Task(c, k) IN
       \/ /\ Update(t.video.id, FailedUpdate(t.video.metadata, MsgNotFound))
          /\ failedBy' = [failedBy EXCEPT ![t.video.id] = t.attemptNumber]
          /\ SetTask(c, k, [Wrote(t, FailedUpdate(t.video.metadata, MsgNotFound)) EXCEPT
                               !.pc = "unlink_in", !.outcome = "failed"])
          /\ UNCHANGED stats
       \/ /\ "store" \in faults
          /\ SetTask(c, k, Caught(t, "w_failed_nf", MsgStore))
          /\ StatsFailed
          /\ UNCHANGED <<rows, failedBy>>
    /\ UNCHANGED <<storage, scratch, ticksLeft, resetsLeft, directLeft, faults, ffmpegFails, proc, web, tool>>

\* line 197: downloadFromR2 ends; a failed download may leave a partial file
Download(c, k) ==
    /\ At(c, k, "get")
    /\ LET t == Task(c, k) IN
       \/ /\ storage[t.video.video_url].present
          /\ scratch' = WriteFile(InputFile(t), storage[t.video.video_url].size)
          /\ SetTask(c, k, [t EXCEPT !.pc = "stat_in"])
          /\ UNCHANGED stats
       \/ /\ "get" \in faults \/ ~storage[t.video.video_url].present
          /\ scratch' \in {scratch, WriteFile(InputFile(t), 0)}
          /\ SetTask(c, k, Caught(t, "get", MsgDownload))
          /\ StatsFailed
    /\ UNCHANGED <<rows, storage, ticksLeft, resetsLeft, directLeft, faults, failedBy, ffmpegFails, proc, web, tool>>

\* line 200: fs.stat(tempInput); then the probe or ffmpeg is started
StatInput(c, k) ==
    /\ At(c, k, "stat_in")
    /\ LET t == Task(c, k) IN
       IF Exists(InputFile(t))
       THEN /\ SetTask(c, k, [t EXCEPT !.inputSize = scratch[InputFile(t)],
                                       !.pc = IF t.video.video_duration = 0 THEN "probe" ELSE "ffmpeg"])
            /\ UNCHANGED stats
       ELSE /\ SetTask(c, k, Caught(t, "stat_in", MsgENOENT))
            /\ StatsFailed
    /\ UNCHANGED <<rows, storage, scratch, ticksLeft, resetsLeft, directLeft, faults, failedBy, ffmpegFails, proc, web, tool>>

\* line 206: getVideoDuration answers (0 when ffprobe fails); stats.skipped++ before the write
Probe(c, k) ==
    /\ At(c, k, "probe")
    /\ LET t == Task(c, k) IN
       \E d \in (IF Exists(InputFile(t)) THEN {storage[t.video.video_url].duration} ELSE {})
                \cup (IF "probe" \in faults \/ ~Exists(InputFile(t)) THEN {0} ELSE {}) :
          /\ SetTask(c, k, [t EXCEPT !.actualDuration = d,
                                     !.pc = IF d <= MinDuration THEN "w_skip2" ELSE "ffmpeg"])
          /\ stats' = [stats EXCEPT !.skipped = IF d <= MinDuration THEN @ + 1 ELSE @]
    /\ UNCHANGED <<rows, storage, scratch, ticksLeft, resetsLeft, directLeft, faults, failedBy, ffmpegFails, proc, web, tool>>

\* line 214: the skip write after probing, inside the try block; then cleanup is called
WriteProbeSkip(c, k) ==
    /\ At(c, k, "w_skip2")
    /\ LET t == Task(c, k) IN
       \/ /\ Update(t.video.id, ProbeSkipUpdate(t))
          /\ SetTask(c, k, [Wrote(t, ProbeSkipUpdate(t)) EXCEPT
                               !.pc = "c_unlink_in", !.outcome = "skipped"])
          /\ UNCHANGED stats
       \/ /\ "store" \in faults
          /\ SetTask(c, k, Caught(t, "w_skip2", MsgStore))
          /\ StatsFailed
          /\ UNCHANGED rows
    /\ UNCHANGED <<storage, scratch, ticksLeft, resetsLeft, directLeft, faults, failedBy, ffmpegFails, proc, web, tool>>

\* line 227: cleanup(tempInput, tempOutput) of the skip branch, first file
SkipUnlinkInput(c, k) ==
    /\ At(c, k, "c_unlink_in")
    /\ scratch' = Unlink(InputFile(Task(c, k)))
    /\ SetTask(c, k, [Task(c, k) EXCEPT !.pc = "c_unlink_out"])
    /\ UNCHANGED <<rows, storage, stats, ticksLeft, resetsLeft, directLeft, faults, failedBy, ffmpegFails, proc, web, tool>>

\* line 227: second file; return, and the finally block starts its own cleanup
SkipUnlinkOutput(c, k) ==
    /\ At(c, k, "c_unlink_out")
    /\ scratch' = Unlink(OutputFile(Task(c, k)))
    /\ SetTask(c, k, [Task(c, k) EXCEPT !.pc = "unlink_in"])
    /\ UNCHANGED <<rows, storage, stats, ticksLeft, resetsLeft, directLeft, faults, failedBy, ffmpegFails, proc, web, tool>>

\* line 234: executeFFmpeg ends. With the input file gone ffmpeg exits non-zero
\* before muxing; a rejected run may leave a partial output file. The size of the
\* remuxed file is a property of the video (storage[key].remuxSize).
ExecuteFFmpeg(c, k) ==
    /\ At(c, k, "ffmpeg")
    /\ LET t == Task(c, k) IN
       \E exit \in {0, 1}, marker \in BOOLEAN :
          /\ Exists(InputFile(t)) => (exit = 0 /\ marker) \/ "ffmpeg" \in faults
          /\ ~Exists(InputFile(t)) => (exit = 1 /\ ~marker)
          /\ exit = 0 => marker
          /\ IF FFmpegRejects(exit, marker)
             THEN /\ scratch' \in {scratch, WriteFile(OutputFile(t), 0)}
                  /\ SetTask(c, k, Caught(t, "ffmpeg", MsgFFmpeg))
                  /\ StatsFailed
                  /\ ffmpegFails' = [ffmpegFails EXCEPT ![t.video.id] = @ + 1]
             ELSE /\ scratch' = WriteFile(OutputFile(t), storage[t.video.video_url].remuxSize)
                  /\ SetTask(c, k, [t EXCEPT !.pc = "stat_out"])
                  /\ UNCHANGED <<stats, ffmpegFails>>
    /\ UNCHANGED <<rows, storage, ticksLeft, resetsLeft, directLeft, faults, failedBy, proc, web, tool>>

\* lines 394-409: exec is given no timeout and the promise is settled in its
\* callback alone; an ffmpeg that never exits leaves the run where it is
FFmpegHangs(c, k) ==
    /\ At(c, k, "ffmpeg")
    /\ SetTask(c, k, [Task(c, k) EXCEPT !.pc = "hung"])
    /\ UNCHANGED <<rows, storage, scratch, stats, ticksLeft, resetsLeft, directLeft, faults, failedBy, ffmpegFails, proc, web, tool>>

\* line 237: fs.stat(tempOutput); then uploadToR2 is called and reads the file
StatOutput(c, k) ==
    /\ At(c, k, "stat_out")
    /\ LET t == Task(c, k) IN
       IF Exists(OutputFile(t))
       THEN /\ SetTask(c, k, [t EXCEPT !.outputSize = scratch[OutputFile(t)], !.pc = "read_out"])
            /\ UNCHANGED stats
       ELSE /\ SetTask(c, k, Caught(t, "stat_out", MsgENOENT))
            /\ StatsFailed
    /\ UNCHANGED <<rows, storage, scratch, ticksLeft, resetsLeft, directLeft, faults, failedBy, ffmpegFails, proc, web, tool>>

\* line 354: fs.readFile(filePath) in uploadToR2; then the PUT is sent
ReadOutput(c, k) ==
    /\ At(c, k, "read_out")
    /\ LET t == Task(c, k) IN
       IF Exists(OutputFile(t))
       THEN /\ SetTask(c, k, [t EXCEPT !.body = scratch[OutputFile(t)], !.pc = "put"])
            /\ UNCHANGED stats
       ELSE /\ SetTask(c, k, Caught(t, "read_out", MsgENOENT))
            /\ StatsFailed
    /\ UNCHANGED <<rows, storage, scratch, ticksLeft, resetsLeft, directLeft, faults, failedBy, ffmpegFails, proc, web, tool>>

\* mutant: the remuxed file goes to another key than the job's
UploadKey_Other(t) == (t.video.video_url % Len(rows)) + 1

\* the key uploadToR2 is given at line 251
UploadKey(t) == t.video.video_url

\* line 368: the PUT ends; then the completed write is sent
UploadToR2(c, k) ==
    /\ At(c, k, "put")
    /\ LET t == Task(c, k) IN
       \/ /\ storage' = [storage EXCEPT ![UploadKey(t)] =
                            [@ EXCEPT !.present = TRUE, !.size = t.body, !.remuxed = TRUE]]
          /\ SetTask(c, k, [t EXCEPT !.pc = "w_completed"])
          /\ UNCHANGED stats
       \/ /\ "put" \in faults
          /\ SetTask(c, k, Caught(t, "put", MsgUpload))
          /\ StatsFailed
          /\ UNCHANGED storage
    /\ UNCHANGED <<rows, scratch, ticksLeft, resetsLeft, directLeft, faults, failedBy, ffmpegFails, proc, web, tool>>

\* lines 255-274: the completed write, then the counters; the finally block follows
WriteCompleted(c, k) ==
    /\ At(c, k, "w_completed")
    /\ LET t == Task(c, k) IN
       \/ /\ Update(t.video.id, CompletedUpdate(t))
          /\ stats' = [stats EXCEPT !.processed = @ + 1, !.totalSaved = @ + SavedBytes(t)]
          /\ SetTask(c, k, [Wrote(t, CompletedUpdate(t)) EXCEPT
                               !.pc = "unlink_in", !.outcome = "completed"])
       \/ /\ "store" \in faults
          /\ SetTask(c, k, Caught(t, "w_completed", MsgStore))
          /\ StatsFailed
          /\ UNCHANGED rows
    /\ UNCHANGED <<storage, scratch, ticksLeft, resetsLeft, directLeft, faults, failedBy, ffmpegFails, proc, web, tool>>

\* line 283: markAsFailed in the catch block; an error here leaves processVideo
\* rejected once the finally block has run
WriteFailed(c, k) ==
    /\ At(c, k, "w_failed")
    /\ LET t == Task(c, k) IN
       \/ /\ Update(t.video.id, FailedUpdate(t.video.metadata, t.error))
          /\ failedBy' = [failedBy EXCEPT ![t.video.id] = t.attemptNumber]
          /\ SetTask(c, k, [Wrote(t, FailedUpdate(t.video.metadata, t.error)) EXCEPT
                               !.pc = "unlink_in", !.outcome = "failed"])
       \/ /\ "store" \in faults
          /\ SetTask(c, k, [t EXCEPT !.pc = "unlink_in", !.after = "rejected", !.outcome = "retry"])
          /\ UNCHANGED <<rows, failedBy>>
    /\ UNCHANGED <<storage, scratch, stats, ticksLeft, resetsLeft, directLeft, faults, ffmpegFails, proc, web, tool>>

\* line 287: cleanup in the finally block, first file
UnlinkInput(c, k) ==
    /\ At(c, k, "unlink_in")
    /\ scratch' = Unlink(InputFile(Task(c, k)))
    /\ SetTask(c, k, [Task(c, k) EXCEPT !.pc = "unlink_out"])
    /\ UNCHANGED <<rows, storage, stats, ticksLeft, resetsLeft, directLeft, faults, failedBy, ffmpegFails, proc, web, tool>>

\* line 287: second file; processVideo settles
UnlinkOutput(c, k) ==
    /\ At(c, k, "unlink_out")
    /\ scratch' = Unlink(OutputFile(Task(c, k)))
    /\ SetTask(c, k, [Task(c, k) EXCEPT !.pc = "done", !.result = Task(c, k).after])
    /\ UNCHANGED <<rows, storage, stats, ticksLeft, resetsLeft, directLeft, faults, failedBy, ffmpegFails, proc, web, tool>>

----------------------------------------------------------------------------
\* processVideos and the scheduler

\* ticksLeft of a scheduler that is never stopped
Forever == 0 - 1

IdleCycle == [pc |-> "idle", origin |-> "none", videos |-> <<>>, i |-> 0, tasks |-> <<>>]

Free(c) == cycles[c].pc = "idle"

\* mutant: a tick is skipped while a call is running
FreeSlot_SingleFlight(c) == \A d \in DOMAIN cycles : Free(d) /\ c <= d

\* slots are interchangeable: a new call takes the lowest free one
FreeSlot(c) == Free(c) /\ \A d \in DOMAIN cycles : d < c => ~Free(d)

Min(a, b) == IF a < b THEN a ELSE b

\* mutant: every remaining video is started at once
StartBatch_All(videos, i) ==
    [k \in 1..(Len(videos) - i) |-> NewTask(videos[i + k])]

\* videos.slice(i, i + batchSize).map(video => this.processVideo(video))
StartBatch(videos, i) ==
    [k \in 1..(Min(i + BatchSize, Len(videos)) - i) |-> NewTask(videos[i + k])]

\* mutant: Promise.all, which also resolves the wait on the first rejection
BatchSettled_All(batch) ==
    \/ \E k \in 1..Len(batch) : batch[k].result = "rejected"
    \/ \A k \in 1..Len(batch) : Settled(batch[k])

\* mutant: the wait ends with the first promise of the batch that settles
BatchSettled_Any(batch) == \E k \in 1..Len(batch) : Settled(batch[k])

\* await Promise.allSettled(batch): every promise of the batch has settled
BatchSettled(batch) == \A k \in 1..Len(batch) : Settled(batch[k])

CurrentBatch(c) == SubSeq(cycles[c].tasks, cycles[c].i + 1, Len(cycles[c].tasks))

\* lines 78-83: cron fires (or start() makes its first call); the query is sent
Tick(c) ==
    /\ proc.alive
    /\ ticksLeft # 0
    /\ FreeSlot(c)
    /\ ticksLeft' = IF ticksLeft = Forever THEN Forever ELSE ticksLeft - 1
    /\ cycles' = [cycles EXCEPT ![c] = [IdleCycle EXCEPT !.pc = "query", !.origin = "tick"]]
    /\ UNCHANGED <<rows, storage, scratch, stats, resetsLeft, directLeft, faults, failedBy, ffmpegFails, proc, web, tool>>

\* mutant: the call enters the batch loop although it has no rows
NoVideos_Run == [IdleCycle EXCEPT !.pc = "run", !.origin = "tick"]

\* lines 107-115 and 126-128: on a query error (returned or thrown) and on an
\* empty result processVideos logs and returns
NoVideos == IdleCycle

\* lines 97-124: the query answers; on rows, the first batch is started
QueryReturns(c) ==
    /\ proc.alive
    /\ cycles[c].pc = "query"
    /\ \/ /\ "query" \in faults
          /\ cycles' = [cycles EXCEPT ![c] = NoVideos]
          /\ UNCHANGED stats
       \/ LET videos == QueryResult IN
          IF Len(videos) = 0
          THEN /\ cycles' = [cycles EXCEPT ![c] = NoVideos]
               /\ UNCHANGED stats
          ELSE /\ cycles' = [cycles EXCEPT ![c].pc = "run",
                                           ![c].videos = videos,
                                           ![c].tasks = StartBatch(videos, 0)]
               /\ stats' = [stats EXCEPT !.skipped = @ + PrefixSkips(StartBatch(videos, 0))]
    /\ UNCHANGED <<rows, storage, scratch, ticksLeft, resetsLeft, directLeft, faults, failedBy, ffmpegFails, proc, web, tool>>

\* lines 121-124: allSettled resolves; i += batchSize, next batch or return
GroupSettled(c) ==
    /\ proc.alive
    /\ cycles[c].pc = "run"
    /\ BatchSettled(CurrentBatch(c))
    /\ LET i2 == cycles[c].i + BatchSize
           videos == cycles[c].videos IN
       IF i2 < Len(videos)
       THEN /\ cycles' = [cycles EXCEPT ![c].i = i2,
                                        ![c].tasks = @ \o StartBatch(videos, i2)]
            /\ stats' = [stats EXCEPT !.skipped = @ + PrefixSkips(StartBatch(videos, i2))]
       ELSE /\ cycles' = [cycles EXCEPT ![c] = IdleCycle]
            /\ UNCHANGED stats
    /\ UNCHANGED <<rows, storage, scratch, ticksLeft, resetsLeft, directLeft, faults, failedBy, ffmpegFails, proc, web, tool>>

\* a caller other than the scheduler awaits processVideo(row) on a row it has read
DirectRun(c, j) ==
    /\ proc.alive
    /\ directLeft > 0
    /\ FreeSlot(c)
    /\ directLeft' = directLeft - 1
    /\ cycles' = [cycles EXCEPT ![c] = [IdleCycle EXCEPT !.pc = "run",
                                                         !.origin = "direct",
                                                         !.videos = <<rows[j]>>,
                                                         !.tasks = StartBatch(<<rows[j]>>, 0)]]
    /\ stats' = [stats EXCEPT !.skipped = @ + PrefixSkips(StartBatch(<<rows[j]>>, 0))]
    /\ UNCHANGED <<rows, storage, scratch, ticksLeft, resetsLeft, faults, failedBy, ffmpegFails, proc, web, tool>>

\* an operator outside this program puts a job left in processing back to pending
ExternalReset(j) ==
    /\ resetsLeft > 0
    /\ rows[j].remux_status = "processing"
    /\ resetsLeft' = resetsLeft - 1
    /\ rows' = [rows EXCEPT ![j].remux_status = "pending"]
    /\ UNCHANGED <<storage, scratch, stats, cycles, ticksLeft, directLeft, faults, failedBy, ffmpegFails, proc, web, tool>>

----------------------------------------------------------------------------
\* POST /get-upload-url and its rate limiter (src/index.js). web.passed is history:
\* clock reading -> number of calls the limiter has let through at that reading.

Times == {t \in 0..MaxNow : t % ClockStep = 0}

Workers == {1}

\* userRequests.filter(time => now - time < windowMs)
RecentRequests(userRequests, now, windowMs) ==
    SelectSeq(userRequests, LAMBDA time : now - time < windowMs)

\* mutant: the limit is compared with > instead of >=
LimitReached_Late(recentRequests, limit) == Len(recentRequests) > limit

\* if (recentRequests.length >= limit) return false
LimitReached(recentRequests, limit) == Len(recentRequests) >= limit

\* checkRateLimit(userId, limit, windowMinutes) at clock reading now: the new
\* requestCounts and the value returned
CheckRateLimit(requestCounts, now, userId, limit, windowMinutes) ==
    LET windowMs == windowMinutes * 60 * 1000
        key == <<"user">> \o userId
        userRequests == IF key \in DOMAIN requestCounts THEN requestCounts[key] ELSE <<>>
        recentRequests == RecentRequests(userRequests, now, windowMs)
    IN IF LimitReached(recentRequests, limit)
       THEN [requestCounts |-> (key :> recentRequests) @@ requestCounts, ok |-> FALSE]
       ELSE [requestCounts |-> (key :> Append(recentRequests, now)) @@ requestCounts, ok |-> TRUE]

\* POST /get-upload-url by an authenticated worker: 429 from the limiter, 400
\* without a fileName, else 200 with the presigned URL
GetUploadUrl(worker, hasFileName) ==
    LET checked == CheckRateLimit(web.requestCounts, web.now, <<"worker", worker>>,
                                  UploadUrlLimit, UploadUrlWindow)
    IN /\ web' = [web EXCEPT
                     !.requestCounts = checked.requestCounts,
                     !.status = IF ~checked.ok THEN 429 ELSE IF ~hasFileName THEN 400 ELSE 200,
                     !.passed[web.now] = IF checked.ok THEN @ + 1 ELSE @]
       /\ web'.status # web.status \/ checked.ok
       /\ UNCHANGED <<rows, storage, scratch, stats, cycles, ticksLeft, resetsLeft, directLeft, faults, failedBy, ffmpegFails, proc, tool>>

\* time passes
AdvanceClock ==
    /\ web.now + ClockStep <= MaxNow
    /\ web' = [web EXCEPT !.now = @ + ClockStep]
    /\ UNCHANGED <<rows, storage, scratch, stats, cycles, ticksLeft, resetsLeft, directLeft, faults, failedBy, ffmpegFails, proc, tool>>

\* the duration of the uploaded clip, given the duration the client reported
ActualDurations(duration) == IF duration = 0 THEN {1, 45} ELSE {duration}

\* req.body of POST /confirm-upload: key and barcode given or not, fileSize and
\* duration optional
Bodies ==
    LET required == [key : BOOLEAN, barcode : BOOLEAN]
        sized == required \cup {b @@ [fileSize |-> InputSize] : b \in required}
    IN sized \cup {b @@ [duration |-> d] : b \in sized, d \in Durations}

\* x || 0 for a number that may be missing from the body
OrZero(body, field) == IF field \in DOMAIN body THEN body[field] ELSE 0

\* POST /confirm-upload with key and barcode: the row is inserted (the client has
\* put the object under the key before); without them the answer is 400 and
\* nothing is stored
ConfirmUploadRequest(body) ==
    /\ Len(rows) < MaxRows
    /\ body.key /\ body.barcode
    /\ LET id == Len(rows) + 1 IN
       /\ rows' = Append(rows, ConfirmUpload(id, OrZero(body, "fileSize"), OrZero(body, "duration")))
       /\ \E a \in ActualDurations(OrZero(body, "duration")) :
             storage' = Append(storage, [present |-> TRUE, size |-> InputSize, duration |-> a,
                                         remuxSize |-> InputSize + 1, remuxed |-> FALSE])
       /\ failedBy' = Append(failedBy, 0)
       /\ ffmpegFails' = Append(ffmpegFails, 0)
    /\ UNCHANGED <<scratch, stats, cycles, ticksLeft, resetsLeft, directLeft, faults, proc, web, tool>>

----------------------------------------------------------------------------
\* The process: the handlers main installs with process.on. What the process prints
\* is kept as a sequence of line kinds: "bye" (shutting down), "error" (the uncaught
\* exception), "rejection" (the unhandled rejection), "report" (printStats), and
\* "exit" marks the call of process.exit.

Signals == {"SIGINT", "SIGTERM"}

\* mutant: process.exit is called before printStats
HandlerOutput_ExitFirst(banner) == <<banner, "exit">>

\* a handler's body: its banner, processor.printStats(), process.exit(code)
HandlerOutput(banner) == <<banner, "report", "exit">>

Exit(cause, banner, code) ==
    /\ proc.alive
    /\ proc' = [alive |-> FALSE, cause |-> cause, code |-> code,
                out |-> proc.out \o HandlerOutput(banner)]
    /\ UNCHANGED <<rows, storage, scratch, stats, cycles, ticksLeft, resetsLeft, directLeft, faults, failedBy, ffmpegFails, web, tool>>

\* process.on('SIGINT' | 'SIGTERM')
Signal(sig) == Exit(sig, "bye", 0)

\* process.on('uncaughtException')
UncaughtException == Exit("uncaughtException", "error", 1)

\* process.on('unhandledRejection'): the rejection is printed, the process goes on
UnhandledRejection ==
    /\ proc.alive
    /\ Len(proc.out) < MaxOutput
    /\ proc' = [proc EXCEPT !.out = Append(@, "rejection")]
    /\ UNCHANGED <<rows, storage, scratch, stats, cycles, ticksLeft, resetsLeft, directLeft, faults, failedBy, ffmpegFails, web, tool>>

----------------------------------------------------------------------------
\* Initial states: rows as the upload endpoint creates them, objects as uploaded

\* a row the scheduler has claimed n times and an operator has reset each time
Retried(row, n) ==
    IF n = 0 \/ ~Eligible(row) THEN row
    ELSE [row EXCEPT !.remux_attempts = n,
                     !.metadata = Merge(@, [last_remux_attempt |-> "ts"])]

\* the bucket, the scratch directory, the processor and the upload server as the
\* table's rows find them
InitRest(Presence, OutSizes, slots, ticks, resets, directs, FaultSets) ==
    /\ \E p \in [DOMAIN rows -> Presence] :
       \E a \in [DOMAIN rows -> {1, 45}] :
       \E o \in [DOMAIN rows -> OutSizes] :
          /\ \A j \in DOMAIN rows : a[j] \in ActualDurations(rows[j].video_duration)
          /\ storage = [j \in DOMAIN rows |->
                          [present |-> p[j], size |-> InputSize, duration |-> a[j],
                           remuxSize |-> o[j], remuxed |-> FALSE]]
    /\ scratch = <<>>
    /\ stats = [processed |-> 0, failed |-> 0, skipped |-> 0, totalSaved |-> 0]
    /\ cycles = [c \in 1..slots |-> IdleCycle]
    /\ ticksLeft = ticks
    /\ resetsLeft = resets
    /\ directLeft = directs
    /\ faults \in FaultSets
    /\ failedBy = [j \in DOMAIN rows |-> 0]
    /\ ffmpegFails = [j \in DOMAIN rows |-> 0]
    /\ proc = [alive |-> TRUE, cause |-> "none", code |-> 0, out |-> <<>>]
    /\ web = [now |-> 0, requestCounts |-> <<>>, status |-> 0, passed |-> [t \in Times |-> 0]]
    /\ tool = [code |-> 0, stdout |-> <<>>, stderr |-> <<>>, errorMessage |-> <<>>,
               result |-> [rejected |-> FALSE, message |-> <<>>]]

InitWith(JobCounts, Durs, Attempts, Presence, OutSizes, slots, ticks, resets, directs, FaultSets) ==
    /\ \E n \in JobCounts : \E d \in [1..n -> Durs] : \E a \in Attempts :
          rows = [j \in 1..n |-> Retried(ConfirmUpload(j, InputSize, d[j]), a)]
    /\ InitRest(Presence, OutSizes, slots, ticks, resets, directs, FaultSets)

Slots == DOMAIN cycles
TaskIds == 1..QueryLimit

\* the steps of the scheduler's calls that happen while no object is found and
\* attempts remain
NextNotFound ==
    \/ \E c \in Slots : Tick(c)
    \/ \E c \in Slots : QueryReturns(c)
    \/ \E c \in Slots : GroupSettled(c)
    \/ \E c \in Slots, k \in TaskIds : WriteClaim(c, k)
    \/ \E c \in Slots, k \in TaskIds : CheckR2File(c, k)
    \/ \E c \in Slots, k \in TaskIds : UnlinkInput(c, k)
    \/ \E c \in Slots, k \in TaskIds : UnlinkOutput(c, k)

\* the steps of the scheduler's calls that happen while every run is a first attempt
NextFirstAttempts ==
    \/ NextNotFound
    \/ \E c \in Slots, k \in TaskIds : Download(c, k)
    \/ \E c \in Slots, k \in TaskIds : StatInput(c, k)
    \/ \E c \in Slots, k \in TaskIds : ExecuteFFmpeg(c, k)
    \/ \E c \in Slots, k \in TaskIds : StatOutput(c, k)
    \/ \E c \in Slots, k \in TaskIds : ReadOutput(c, k)
    \/ \E c \in Slots, k \in TaskIds : UploadToR2(c, k)
    \/ \E c \in Slots, k \in TaskIds : WriteCompleted(c, k)

\* the jobs on whose video ffmpeg never exits
HangJobs == {1}

\* the scheduler's calls while every run is a first attempt and ffmpeg, started
\* on the video of such a job, never exits
NextHang ==
    \/ NextNotFound
    \/ \E c \in Slots, k \in TaskIds : Download(c, k)
    \/ \E c \in Slots, k \in TaskIds : StatInput(c, k)
    \/ \E c \in Slots, k \in TaskIds :
          ExecuteFFmpeg(c, k) /\ Task(c, k).video.id \notin HangJobs
    \/ \E c \in Slots, k \in TaskIds :
          FFmpegHangs(c, k) /\ Task(c, k).video.id \in HangJobs
    \/ \E c \in Slots, k \in TaskIds : StatOutput(c, k)
    \/ \E c \in Slots, k \in TaskIds : ReadOutput(c, k)
    \/ \E c \in Slots, k \in TaskIds : UploadToR2(c, k)
    \/ \E c \in Slots, k \in TaskIds : WriteCompleted(c, k)

\* one scheduler and its processVideos calls
NextCycle ==
    \/ NextNotFound
    \/ \E c \in Slots, k \in TaskIds : WriteFailedNotFound(c, k)
    \/ \E c \in Slots, k \in TaskIds : Download(c, k)
    \/ \E c \in Slots, k \in TaskIds : StatInput(c, k)
    \/ \E c \in Slots, k \in TaskIds : ExecuteFFmpeg(c, k)
    \/ \E c \in Slots, k \in TaskIds : StatOutput(c, k)
    \/ \E c \in Slots, k \in TaskIds : ReadOutput(c, k)
    \/ \E c \in Slots, k \in TaskIds : UploadToR2(c, k)
    \/ \E c \in Slots, k \in TaskIds : WriteCompleted(c, k)
    \/ \E c \in Slots, k \in TaskIds : WriteFailed(c, k)

\* ... and the operator who resets stuck jobs
NextSched ==
    \/ NextCycle
    \/ \E j \in DOMAIN rows : ExternalReset(j)

\* the process as main runs it: the scheduler's calls (no object found), signals
\* and errors nobody caught
NextProcess ==
    \/ NextNotFound
    \/ \E sig \in Signals : Signal(sig)
    \/ UncaughtException
    \/ UnhandledRejection

\* the scheduler while uploads are being confirmed
NextUpload ==
    \/ NextSched
    \/ \E body \in Bodies : ConfirmUploadRequest(body)

\* the upload server answering requests for upload URLs
NextRate ==
    \/ \E worker \in Workers, hasFileName \in BOOLEAN : GetUploadUrl(worker, hasFileName)
    \/ AdvanceClock

\* executeFFmpeg on its own, for whatever the child process returns
NextTool ==
    \E code \in ExitCodes, stdout \in Outputs, stderr \in {<<>>, Pad(3, "e")},
       errorMessage \in {Pad(TruncateAt - 1, "c"), Pad(TruncateAt + 1, "c")} :
        FFmpegEnds(code, stdout, stderr, errorMessage)

\* with callers of processVideo other than the scheduler: the branches for a row
\* whose recorded duration is at most 1 second become reachable
Next ==
    \/ NextSched
    \/ \E c \in Slots, j \in DOMAIN rows : DirectRun(c, j)
    \/ \E c \in Slots, k \in TaskIds : WriteSkip(c, k)
    \/ \E c \in Slots, k \in TaskIds : Probe(c, k)
    \/ \E c \in Slots, k \in TaskIds : WriteProbeSkip(c, k)
    \/ \E c \in Slots, k \in TaskIds : SkipUnlinkInput(c, k)
    \/ \E c \in Slots, k \in TaskIds : SkipUnlinkOutput(c, k)

----------------------------------------------------------------------------
\* Specifications

\* the job of the end-to-end scenarios, its object there or not, cycles one after
\* the other; with no fault of the environment, with every fault, or with every
\* fault but a rejecting store write
InitSeq ==
    InitWith({1}, {45}, {0}, BOOLEAN, OutputSizes, 1, SeqTicks, SeqResets, 0,
             {{}, AllFaults \ {"store"}, AllFaults})

SpecSeq == InitSeq /\ [][NextSched]_vars

\* the same job, fresh or on its last attempt, with overlapping scheduler cycles
InitOverlap ==
    InitWith({1}, {45}, {0, AttemptCap - 1}, BOOLEAN, OutputSizes, MaxCycles, MaxTicks, MaxResets, 0, {AllFaults})

Spec == InitOverlap /\ [][NextSched]_vars

\* one cycle over a page of up to 5 jobs, fresh or on their last attempt; in one
\* behaviour the remux can fail, or the existence check can miss, or a store write
\* can reject
InitBatch ==
    InitWith(1..MaxJobs, {45}, {0, AttemptCap - 1}, {TRUE}, {InputSize + 1}, 1, 1, 0, 0,
             {{"head"}, {"ffmpeg"}, {"store"}})

SpecBatch == InitBatch /\ [][NextCycle]_vars

\* processVideo called on any row, whatever its recorded duration, besides the scheduler
InitDirect ==
    InitWith({1}, Durations, {0, AttemptCap - 1}, {TRUE}, OutputSizes, 1, 1, 1, MaxDirect,
             {{}, AllFaults})

SpecDirect == InitDirect /\ [][Next]_vars

\* a scheduler that is never stopped: cron fires every minute and, in the
\* behaviours taken here, every awaited operation ends, so the scheduler's steps
\* keep happening
InitForever ==
    InitWith({1}, Durations, {0, AttemptCap - 1}, BOOLEAN, OutputSizes, 1, Forever, MaxResets, 0,
             {{}, AllFaults})

SpecForever == InitForever /\ [][NextSched]_vars /\ WF_vars(NextCycle)

\* nothing in the environment fails; a cycle can still hold its page of rows while
\* another cycle starts and ends and a third one starts
InitStale ==
    InitWith({1}, {45}, {0, AttemptCap - 1}, BOOLEAN, {InputSize + 1}, MaxCycles, StaleTicks,
             MaxResets, 0, {{}})

SpecStale == InitStale /\ [][NextSched]_vars

\* a page of fresh jobs that needs more than one group, none of its objects in the
\* bucket, nothing failing, and overlapping cycles
InitPage ==
    InitWith({PageJobs}, {45}, {0}, {FALSE}, {InputSize + 1}, MaxCycles, MaxTicks,
             0, 0, {{}})

SpecPage == InitPage /\ [][NextNotFound]_vars

\* fresh uploads and a scheduler whose calls can overlap, with no operator at the
\* table: nothing but the processor writes to a row
InitAlone ==
    InitWith({1}, {45}, {0}, BOOLEAN, OutputSizes, MaxCycles, StaleTicks, 0, 0,
             {{}, AllFaults})

SpecAlone == InitAlone /\ [][NextFirstAttempts]_vars

\* two uploads with any reported durations, the scheduler alone
InitMixed ==
    InitWith({2}, Durations, {0}, {TRUE}, {InputSize + 1}, 1, MaxTicks, 0, 0, {{}, AllFaults})

SpecMixed == InitMixed /\ [][NextFirstAttempts]_vars

\* a page of fresh jobs that needs a second group; the objects of the first and
\* of the last job are in the bucket, nothing fails, ffmpeg never exits on the
\* first job's video, and the scheduler's calls can overlap
InitHang ==
    /\ InitWith({PageJobs}, {45}, {0}, BOOLEAN, {InputSize + 1}, MaxCycles, MaxTicks,
                0, 0, {{}})
    /\ \A j \in DOMAIN rows : storage[j].present <=> j \in {1, PageJobs}

SpecHang == InitHang /\ [][NextHang]_vars

\* one row more than a page holds
OrderJobs == QueryLimit + 1

\* the orders in which n rows can have been created
CreationOrders(n) == {f \in [1..n -> 1..n] : \A i, j \in 1..n : i # j => f[i] # f[j]}

\* row j of a table: a fresh upload of a 45 second clip or, in a mixed table, one
\* of the kinds of row the upload endpoint, the processor and an operator leave
OrderRow(j, mixed) ==
    LET fresh == ConfirmUpload(j, InputSize, 45) IN
    IF ~mixed THEN fresh
    ELSE CASE j = 1 -> ConfirmUpload(j, InputSize, 1)
           [] j = 2 -> ConfirmUpload(j, InputSize, 0)
           [] j = 3 -> Retried(fresh, 1)
           [] j = 4 -> Retried(fresh, AttemptCap)
           [] j = 5 -> Merge(fresh, [remux_status |-> "processing", remux_attempts |-> 1])
           [] OTHER -> fresh

\* a table of OrderJobs rows created in any order, all fresh or mixed; no object is
\* in the bucket, nothing fails, one cycle
InitOrder ==
    /\ \E stamp \in CreationOrders(OrderJobs) : \E mixed \in BOOLEAN :
          rows = [j \in 1..OrderJobs |-> [OrderRow(j, mixed) EXCEPT !.created_at = stamp[j]]]
    /\ InitRest({FALSE}, {InputSize + 1}, 1, 1, 0, 0, {{}})

SpecOrder == InitOrder /\ [][NextNotFound]_vars

\* one job whose object is absent, and a process that can be signalled or hit by an
\* uncaught error at any moment
InitProcess ==
    InitWith({1}, {45}, {0}, {FALSE}, {InputSize + 1}, 1, MaxTicks, 0, 0, {{}})

SpecProcess == InitProcess /\ [][NextProcess]_vars

\* a table with one job, fresh or on its last attempt, that receives confirmed uploads
InitUpload ==
    InitWith({1}, {45}, {0, AttemptCap - 1}, BOOLEAN, {InputSize + 1}, 1, MaxTicks, MaxResets, 0,
             {{}, AllFaults})

SpecUpload == InitUpload /\ [][NextUpload]_vars

\* the upload server alone, with an empty table
InitRate ==
    InitWith({0}, {45}, {0}, {TRUE}, {InputSize + 1}, 1, 0, 0, 0, {{}})

SpecRate == InitRate /\ [][NextRate]_vars

\* executeFFmpeg alone
SpecTool == InitRate /\ [][NextTool]_vars

----------------------------------------------------------------------------
\* Claims

TasksOf(c) == 1..Len(cycles[c].tasks)

\* no run of job j is under way
NoRunOf(j) ==
    \A c \in Slots : \A k \in TasksOf(c) :
        Task(c, k).video.id = j => Settled(Task(c, k))

\* C1: a pending job with remuxAttempts = 0, duration 45 and its key in storage,
\* with nothing failing: when the run of one scheduler cycle has settled the row is
\* completed with remuxAttempts = 1, remuxedAt and remuxedSizeBytes set, and the
\* object at the same key is the remuxed file.
C1_EndToEndSuccess ==
    \A c \in Slots : \A k \in TasksOf(c) :
        LET t == Task(c, k)
            id == t.video.id IN
        ( /\ faults = {}
          /\ storage[t.video.video_url].present
          /\ cycles[c].origin = "tick"
          /\ t.video.remux_status = "pending"
          /\ t.video.remux_attempts = 0
          /\ t.video.video_duration = 45
          /\ Settled(t) )
        => /\ rows[id].remux_status = "completed"
           /\ rows[id].remux_attempts = 1
           /\ rows[id].remuxed_at
           /\ rows[id].remuxed_size > 0
           /\ rows[id].remuxed_size = storage[rows[id].video_url].remuxSize
           /\ rows[id].video_url = t.video.video_url
           /\ storage[t.video.video_url].remuxed
           /\ storage[t.video.video_url].size = storage[t.video.video_url].remuxSize

C1_Witness ==
    \E c \in Slots : \E k \in TasksOf(c) :
        /\ faults = {}
        /\ cycles[c].origin = "tick"
        /\ Task(c, k).video.remux_attempts = 0
        /\ Task(c, k).video.video_duration = 45
        /\ Settled(Task(c, k))
        /\ rows[Task(c, k).video.id].remux_status = "completed"
        /\ storage[Task(c, k).video.video_url].remuxed

\* C2: the same job with its key absent from storage and nothing else failing: once
\* three scheduler cycles have run, the row is failed with remuxAttempts = 3 and
\* metadata.remux_error contains "not found".
C2_NotFoundFailsAfterThreeCycles ==
    ( /\ faults = {}
      /\ resetsLeft = SeqResets
      /\ ~storage[1].present
      /\ SeqTicks - ticksLeft >= 3
      /\ \A c \in Slots : cycles[c].pc = "idle" )
    => /\ rows[1].remux_status = "failed"
       /\ rows[1].remux_attempts = 3
       /\ "remux_error" \in DOMAIN rows[1].metadata
       /\ Includes(rows[1].metadata.remux_error, <<"not", "found">>)

\* C3: a job whose remux has been rejected in three runs, once the last of them has
\* settled, is failed with remuxAttempts = 3 (the store accepting the writes).
C3_ThreeTranscodeFailuresFail ==
    \A j \in DOMAIN rows :
        ("store" \notin faults /\ ffmpegFails[j] = 3 /\ NoRunOf(j))
        => rows[j].remux_status = "failed" /\ rows[j].remux_attempts = 3

C3_Witness ==
    \E j \in DOMAIN rows :
        /\ ffmpegFails[j] = 3
        /\ NoRunOf(j)
        /\ rows[j].remux_status = "failed"
        /\ rows[j].metadata.remux_error = MsgFFmpeg

\* C4: in every reachable state a failed row was written by a run whose attempt
\* number was at least 3, and its remuxAttempts is 3.
C4_FailedOnlyAtCap ==
    \A j \in DOMAIN rows :
        rows[j].remux_status = "failed"
        => failedBy[j] >= 3 /\ rows[j].remux_attempts = 3

C4_Witness ==
    \E j \in DOMAIN rows :
        /\ rows[j].remux_status = "failed"
        /\ failedBy[j] = 3
        /\ ffmpegFails[j] > 0

\* C5: a job whose duration is at most 1 second, recorded on its row (a recorded 0
\* included) or found by probing, eventually has remuxStatus = skipped and keeps it
\* (the scheduler running forever, nothing in the environment failing).
C5_ShortJobsEndSkipped ==
    (faults = {} /\ storage[1].present /\ storage[1].duration <= 1)
    => <>[](rows[1].remux_status = "skipped")

\* C6 as stated: a row whose recorded duration is at most 1 (0 included) is never
\* completed.
C6_RecordedShortNeverCompleted ==
    \A j \in DOMAIN rows :
        rows[j].video_duration <= 1 => rows[j].remux_status # "completed"

\* C6, amended: a row whose recorded duration is above 0 and at most 1 is never
\* completed, and a row whose recorded duration is 0 is completed only when the
\* probed duration of its file is above 1.
C6_ShortNeverCompleted ==
    \A j \in DOMAIN rows :
        rows[j].remux_status = "completed"
        => \/ rows[j].video_duration > 1
           \/ rows[j].video_duration = 0 /\ storage[rows[j].video_url].duration > 1

C6_Witness ==
    \E c \in Slots : \E k \in TasksOf(c) :
        /\ cycles[c].origin = "direct"
        /\ Task(c, k).video.video_duration = 1
        /\ Task(c, k).outcome = "skipped"
        /\ Settled(Task(c, k))
        /\ rows[Task(c, k).video.id].remux_status = "skipped"

Unsettled(c) == {k \in TasksOf(c) : ~Settled(Task(c, k))}

\* C7: in every reachable state, the tasks one processVideos call has started and
\* that have not settled are at most 3, whatever the page of up to 5 jobs.
C7_AtMostThreeInFlight ==
    \A c \in Slots : Cardinality(Unsettled(c)) <= 3

C7_Witness ==
    \E c \in Slots :
        /\ Len(cycles[c].videos) = 5
        /\ Cardinality(Unsettled(c)) = 3

\* some step of the processVideo run k of call c
TaskStep(c, k) ==
    \/ WriteSkip(c, k) \/ WriteClaim(c, k) \/ CheckR2File(c, k) \/ WriteFailedNotFound(c, k)
    \/ Download(c, k) \/ StatInput(c, k) \/ Probe(c, k) \/ WriteProbeSkip(c, k)
    \/ SkipUnlinkInput(c, k) \/ SkipUnlinkOutput(c, k) \/ ExecuteFFmpeg(c, k)
    \/ StatOutput(c, k) \/ ReadOutput(c, k) \/ UploadToR2(c, k) \/ WriteCompleted(c, k)
    \/ WriteFailed(c, k) \/ UnlinkInput(c, k) \/ UnlinkOutput(c, k)

\* C8: while a run of a group has not settled, whatever has become of its siblings
\* (failed, rejected or done), it can take its next step, no step of the program
\* removes it, and no step starts a run of the next group.
C8_SiblingsIndependentGroupsInOrder ==
    [][\A c \in Slots : \A k \in Unsettled(c) :
          /\ ENABLED TaskStep(c, k)
          /\ cycles'[c].pc = "run"
          /\ Len(cycles'[c].tasks) = Len(cycles[c].tasks)
          /\ cycles'[c].tasks[k].video = Task(c, k).video]_vars

C8_Witness ==
    \E c \in Slots :
        /\ Len(cycles[c].tasks) > 3
        /\ \E a, b \in 1..3 :
              /\ Task(c, a).result = "rejected"
              /\ Task(c, b).outcome = "completed"
        /\ \E m, n \in 4..Len(cycles[c].tasks) :
              /\ Task(c, m).result = "rejected"
              /\ ~Settled(Task(c, n))
              /\ Task(c, n).pc = "unlink_out"

\* C9: the step in which a processVideo run settles leaves neither scratch file of
\* its job in the scratch directory, other runs of the same job under way or not.
C9_NoScratchFilesWhenRunFinishes ==
    [][\A c \in Slots : \A k \in Unsettled(c) :
          (k <= Len(cycles'[c].tasks) /\ Settled(cycles'[c].tasks[k]))
          => /\ InputFile(Task(c, k)) \notin DOMAIN scratch'
             /\ OutputFile(Task(c, k)) \notin DOMAIN scratch']_vars

\* C10: a run whose remux output is larger than its input has, once it has written
\* completed, replaced the object with the output; the row is completed with
\* metadata.size_saved = input size - output size < 0, and that negative number is
\* what totalSaved has received.
C10_LargerOutputStillCompletes ==
    \A c \in Slots : \A k \in TasksOf(c) :
        LET t == Task(c, k)
            id == t.video.id IN
        (t.outcome = "completed" /\ t.outputSize > t.inputSize)
        => /\ storage[t.video.video_url].remuxed
           /\ storage[t.video.video_url].size = t.outputSize
           /\ rows[id].remux_status = "completed"
           /\ rows[id].remuxed_size = t.outputSize
           /\ rows[id].metadata.size_saved = t.inputSize - t.outputSize
           /\ rows[id].metadata.size_saved < 0
           /\ stats.totalSaved = rows[id].metadata.size_saved

C10_Witness ==
    \E c \in Slots : \E k \in TasksOf(c) :
        /\ Task(c, k).outcome = "completed"
        /\ Task(c, k).outputSize > Task(c, k).inputSize
        /\ Settled(Task(c, k))
        /\ rows[Task(c, k).video.id].metadata.size_saved < 0
        /\ stats.totalSaved < 0

\* C11: no step of the program or of the operator lowers the remuxAttempts of a row.
C11_AttemptsNeverDecrease ==
    [][\A j \in DOMAIN rows : rows'[j].remux_attempts >= rows[j].remux_attempts]_vars

\* the run k of call c gets past its claim in this step and sends the existence check
Launches(c, k) ==
    /\ At(c, k, "w_claim")
    /\ k <= Len(cycles'[c].tasks)
    /\ cycles'[c].tasks[k].pc = "head"

\* C12: remuxAttempts never exceeds 3, and a run sends its existence check (and so
\* goes on to download, remux and upload) only for a row whose remuxAttempts was
\* below 3 before the run's own claim.
C12_NoAttemptBeyondCap ==
    [][\A j \in DOMAIN rows :
          /\ rows'[j].remux_attempts <= 3
          /\ \A c \in Slots : \A k \in TasksOf(c) :
                (Task(c, k).video.id = j /\ Launches(c, k)) => rows[j].remux_attempts < 3]_vars

AllTasks == {ck \in Slots \X TaskIds : ck[2] \in TasksOf(ck[1])}

\* C13 as stated: the remuxStatus values one run writes are a prefix of processing,
\* completed or of processing, failed, or the single value skipped.
C13_WritesFollowLifecycle ==
    \A ck \in AllTasks :
        Task(ck[1], ck[2]).written \in
            { <<>>, <<"skipped">>, <<"processing">>,
              <<"processing", "completed">>, <<"processing", "failed">> }

\* C13, amended: besides those, a run writes skipped after processing exactly on the
\* probe path: the row records no duration (0) and the probed duration is at most 1.
\* A run started by the scheduler works on a row it saw as pending, and a row whose
\* recorded duration is above 0 and at most 1 gets the direct skip only.
C13_WritesFollowLifecycleOrProbeSkip ==
    \A ck \in AllTasks :
        LET t == Task(ck[1], ck[2]) IN
        /\ t.written \in
              { <<>>, <<"skipped">>, <<"processing">>, <<"processing", "skipped">>,
                <<"processing", "completed">>, <<"processing", "failed">> }
        /\ t.written = <<"processing", "skipped">>
              => t.video.video_duration = 0 /\ t.actualDuration <= 1
        /\ t.written = <<"skipped">>
              => t.video.video_duration > 0 /\ t.video.video_duration <= 1
        /\ cycles[ck[1]].origin = "tick" => t.video.remux_status = "pending"

C13_Witness ==
    \E ck \in AllTasks :
        /\ Task(ck[1], ck[2]).written = <<"processing", "skipped">>
        /\ Settled(Task(ck[1], ck[2]))
        /\ rows[Task(ck[1], ck[2]).video.id].remux_status = "skipped"

\* C14: every step keeps every metadata key of every row (the key set only grows).
C14_MetadataKeysOnlyGrow ==
    [][\A j \in DOMAIN rows :
          DOMAIN rows[j].metadata \subseteq DOMAIN rows'[j].metadata]_vars

\* C15: every processVideo call that has settled is fulfilled, whatever failed on
\* its way.
C15_EveryRunFulfilled ==
    \A ck \in AllTasks :
        Settled(Task(ck[1], ck[2])) => Task(ck[1], ck[2]).result = "fulfilled"

\* C16: the claim of a run is applied whatever the row's state is: after the step
\* in which a run gets past its claim, the row is processing with that run's attempt
\* number, also when another run is working on the same row.
C16_SecondClaimNotRejected ==
    [][\A ck \in AllTasks :
          Launches(ck[1], ck[2])
          => LET t == Task(ck[1], ck[2]) IN
             /\ rows'[t.video.id].remux_status = "processing"
             /\ rows'[t.video.id].remux_attempts = t.attemptNumber]_vars

\* two cycles have both claimed the same job and both runs are under way
C16_Witness ==
    \E c, d \in Slots : \E k \in TasksOf(c), m \in TasksOf(d) :
        /\ c # d
        /\ Task(c, k).video.id = Task(d, m).video.id
        /\ Task(c, k).video.remux_status = "pending"
        /\ Task(d, m).video.remux_status = "pending"
        /\ Task(c, k).written = <<"processing">>
        /\ Task(d, m).written = <<"processing">>
        /\ ~Settled(Task(c, k))
        /\ ~Settled(Task(d, m))

\* the jobs of call c's page whose run has not settled or has not started yet
InFlight(c) ==
    {cycles[c].videos[i].id : i \in {n \in 1..Len(cycles[c].videos) :
                                        n > Len(cycles[c].tasks) \/ ~Settled(Task(c, n))}}

\* C17: the page a query returns holds no job that is in flight in another call.
C17_QueryAvoidsInFlightJobs ==
    [][\A d \in Slots :
          (cycles[d].pc = "query" /\ cycles'[d].pc = "run")
          => \A c \in Slots \ {d} :
                InFlight(c) \cap {cycles'[d].videos[i].id : i \in 1..Len(cycles'[d].videos)} = {}]_vars

Running(c) == cycles[c].pc # "idle"

\* C18: a tick that fires while a call of processVideos is running starts another
\* call: with ticks left, the tick is enabled for the lowest slot not in use,
\* whatever the calls in the other slots are doing.
C18_TicksNotExclusive ==
    \A c \in Slots :
        (ticksLeft # 0 /\ ~Running(c) /\ \A d \in Slots : d < c => Running(d))
        => ENABLED Tick(c)

\* two calls run at once and more than 3 runs are in flight
C18_Witness ==
    /\ Running(1)
    /\ Running(2)
    /\ cycles[1].origin = "tick"
    /\ cycles[2].origin = "tick"
    /\ Cardinality(Unsettled(1)) + Cardinality(Unsettled(2)) > 3

\* some run writes the given remux_status in this step
WritesNow(status) ==
    \E ck \in AllTasks :
        /\ ck[2] <= Len(cycles'[ck[1]].tasks)
        /\ cycles'[ck[1]].tasks[ck[2]].written = Append(Task(ck[1], ck[2]).written, status)

Count(b) == IF b THEN 1 ELSE 0

\* C19: in every step, processed grows by one exactly when a run writes completed,
\* skipped exactly when a run writes skipped, failed exactly when a run writes
\* failed; otherwise the counters keep their values.
C19_CountersFollowTerminalWrites ==
    [][/\ stats'.processed = stats.processed + Count(WritesNow("completed"))
       /\ stats'.skipped = stats.skipped + Count(WritesNow("skipped"))
       /\ stats'.failed = stats.failed + Count(WritesNow("failed"))]_vars

\* C20: no step changes the video_url or the upload status of a row, the keys of
\* the bucket stay the same, and an object changes only in the step that ends the
\* upload of a run whose job has that object's key as its video_url.
C20_KeyStable ==
    [][/\ \A j \in DOMAIN rows :
             /\ rows'[j].video_url = rows[j].video_url
             /\ rows'[j].status = rows[j].status
       /\ DOMAIN storage' = DOMAIN storage
       /\ \A key \in DOMAIN storage :
             storage'[key] # storage[key]
             => \E ck \in AllTasks :
                   /\ At(ck[1], ck[2], "put")
                   /\ cycles'[ck[1]].tasks[ck[2]].pc = "w_completed"
                   /\ Task(ck[1], ck[2]).video.video_url = key
                   /\ rows[Task(ck[1], ck[2]).video.id].video_url = key
                   /\ storage'[key].size = Task(ck[1], ck[2]).body]_vars

C20_Witness ==
    \E j, i \in DOMAIN rows :
        /\ i # j
        /\ rows[j].remux_status = "completed"
        /\ rows[j].status = "completed"
        /\ storage[rows[j].video_url].remuxed
        /\ rows[j].video_url = j
        /\ ~storage[rows[i].video_url].remuxed
        /\ rows[i].remux_status = "processing"

\* C21: a process that has exited was stopped by SIGINT, SIGTERM or an uncaught
\* exception; the last thing it printed before process.exit is the statistics
\* report; its exit status is 0 after a signal and not 0 after an uncaught
\* exception. A live process has not called process.exit.
C21_ReportThenExit ==
    LET n == Len(proc.out) IN
    /\ \A i \in 1..n : proc.out[i] = "exit" => i = n /\ ~proc.alive
    /\ ~proc.alive
         => /\ n >= 2
            /\ proc.out[n] = "exit"
            /\ proc.out[n - 1] = "report"
            /\ proc.cause \in Signals \cup {"uncaughtException"}
            /\ proc.cause \in Signals => proc.code = 0
            /\ proc.cause = "uncaughtException" => proc.code # 0

C21_Witness ==
    /\ ~proc.alive
    /\ proc.cause = "uncaughtException"
    /\ proc.code = 1
    /\ proc.out[Len(proc.out) - 1] = "report"
    /\ cycles[1].pc = "run"

\* the row the step has inserted
Inserted == rows'[Len(rows')]

PassedWithin(passed, from, to) ==
    LET RECURSIVE Sum(_)
        Sum(T) == IF T = {} THEN 0
                  ELSE LET t == CHOOSE x \in T : TRUE IN passed[t] + Sum(T \ {t})
    IN Sum({t \in DOMAIN passed : from <= t /\ t <= to})

\* in every step: no window of UploadUrlWindow minutes holds more than limit
\* accepted calls of the worker, and a call is answered 429 exactly when limit
\* calls were accepted in the window that ends with it
RateLimited(limit) ==
    LET windowMs == UploadUrlWindow * 60 * 1000 IN
    /\ \A t \in Times : PassedWithin(web'.passed, t, t + windowMs - 1) <= limit
    /\ \A worker \in Workers, hasFileName \in BOOLEAN :
          GetUploadUrl(worker, hasFileName) =>
              (web'.status = 429 <=>
                  PassedWithin(web.passed, web.now - windowMs + 1, web.now) >= limit)

ExternalStep(c, k) ==
    \/ CheckR2File(c, k) \/ Download(c, k) \/ Probe(c, k)
    \/ ExecuteFFmpeg(c, k) \/ UploadToR2(c, k)

\* C24: a run that passes the pre-check first writes processing with remuxAttempts
\* one above the attempts of the row it was given, and only when that write has
\* returned does it check for the object, download, probe, remux or upload: the
\* first write of a run that does any of these was the claim, and a claim that is
\* rejected ends the run.
C24_ClaimBeforeExternalWork ==
    [][\A ck \in AllTasks :
          LET c == ck[1]
              k == ck[2]
              t == Task(c, k) IN
          /\ ExternalStep(c, k) => t.written # <<>> /\ t.written[1] = "processing"
          /\ WriteClaim(c, k) =>
                /\ t.written = <<>>
                /\ \/ /\ cycles'[c].tasks[k].pc = "head"
                      /\ cycles'[c].tasks[k].written = <<"processing">>
                      /\ rows'[t.video.id].remux_status = "processing"
                      /\ rows'[t.video.id].remux_attempts = t.video.remux_attempts + 1
                   \/ /\ cycles'[c].tasks[k].result = "rejected"
                      /\ rows' = rows]_vars

C24_Witness ==
    \E c \in Slots : \E k \in TasksOf(c) :
        /\ Task(c, k).pc = "w_completed"
        /\ Task(c, k).written = <<"processing">>
        /\ Task(c, k).video.remux_attempts = 2
        /\ rows[Task(c, k).video.id].remux_attempts = 3
        /\ rows[Task(c, k).video.id].remux_status = "processing"

\* the row records a duration (not 0, which stands for none) of at most 1 second
KnownShort(video) == video.video_duration # 0 /\ video.video_duration <= 1

\* C25: a run given a job with a recorded duration above 0 and at most 1 takes one
\* step only, the write of skipped with skip_reason = duration_too_short, and is
\* settled by it (a write the store rejects leaves the row as it was); no step
\* changes the remuxAttempts of such a job or leaves it in processing, and the
\* run's step touches neither the bucket nor the scratch directory.
C25_KnownShortSkippedAtOnce ==
    [][/\ \A ck \in AllTasks :
             LET c == ck[1]
                 k == ck[2]
                 t == Task(c, k)
                 id == t.video.id IN
             KnownShort(t.video) =>
                /\ TaskStep(c, k) => WriteSkip(c, k)
                /\ WriteSkip(c, k) =>
                      /\ t.written = <<>>
                      /\ Settled(cycles'[c].tasks[k])
                      /\ storage' = storage /\ scratch' = scratch
                      /\ \/ /\ cycles'[c].tasks[k].written = <<"skipped">>
                            /\ rows'[id].remux_status = "skipped"
                            /\ rows'[id].metadata.skip_reason = "duration_too_short"
                            /\ rows'[id].remux_attempts = rows[id].remux_attempts
                         \/ /\ cycles'[c].tasks[k].result = "rejected"
                            /\ rows' = rows
       /\ \A j \in DOMAIN rows :
             KnownShort(rows[j]) =>
                /\ rows'[j].remux_attempts = rows[j].remux_attempts
                /\ rows'[j].remux_status # "processing"]_vars

C25_Witness ==
    \E c \in Slots : \E k \in TasksOf(c) :
        LET t == Task(c, k) IN
        /\ t.video.video_duration = 1
        /\ t.video.remux_attempts = 0
        /\ t.result = "fulfilled"
        /\ t.written = <<"skipped">>
        /\ rows[t.video.id].remux_status = "skipped"
        /\ rows[t.video.id].remux_attempts = 0
        /\ rows[t.video.id].metadata.skip_reason = "duration_too_short"
        /\ scratch = <<>>

\* C26: when the existence check answers that the object is absent, the row is not
\* touched by that step. Below attempt 3 the run goes on to the cleanup only: it
\* writes nothing after its claim, downloads, remuxes and uploads nothing, and the
\* row keeps remuxAttempts = the run's attempt number and stays processing (until
\* an operator resets it). At attempt 3 or above the run's next step writes failed
\* with remuxAttempts = 3 and remux_error "File not found after 3 attempts", unless
\* the store rejects that write.
C26_NotFoundRetryOrFail ==
    [][\A ck \in AllTasks :
          LET c == ck[1]
              k == ck[2]
              t == Task(c, k)
              id == t.video.id IN
          /\ (CheckR2File(c, k) /\ cycles'[c].tasks[k].pc # "get") =>
                /\ rows' = rows
                /\ IF t.attemptNumber < 3
                   THEN cycles'[c].tasks[k].outcome = "notfound" /\ cycles'[c].tasks[k].pc = "unlink_in"
                   ELSE cycles'[c].tasks[k].pc = "w_failed_nf"
          /\ t.pc = "w_failed_nf" /\ TaskStep(c, k) =>
                \/ /\ rows'[id].remux_status = "failed"
                   /\ rows'[id].remux_attempts = 3
                   /\ rows'[id].metadata.remux_error = MsgNotFound
                   /\ cycles'[c].tasks[k].written = <<"processing", "failed">>
                \/ /\ rows' = rows
                   /\ cycles'[c].tasks[k].thrownAt = "w_failed_nf"
          /\ t.outcome = "notfound" =>
                /\ t.attemptNumber < 3
                /\ t.written = <<"processing">>
                /\ rows[id].remux_attempts = t.attemptNumber
                /\ \/ rows[id].remux_status = "processing"
                   \/ rows[id].remux_status = "pending" /\ resetsLeft < SeqResets
                /\ TaskStep(c, k) =>
                      /\ UnlinkInput(c, k) \/ UnlinkOutput(c, k)
                      /\ rows' = rows /\ storage' = storage]_vars

C26_Witness ==
    \E c \in Slots : \E k \in TasksOf(c) :
        LET t == Task(c, k) IN
        /\ t.outcome = "notfound"
        /\ t.attemptNumber = 2
        /\ t.result = "fulfilled"
        /\ ~storage[t.video.video_url].present
        /\ rows[t.video.id].remux_status = "processing"
        /\ rows[t.video.id].remux_attempts = 2
        /\ scratch = <<>>

\* the awaited steps of the try block from the download to the completed write
ErrorSteps == {"get", "stat_in", "w_skip2", "ffmpeg", "stat_out", "read_out", "put", "w_completed"}

\* C27: an error thrown by a step from the download to the completed write does not
\* touch the row in that step. In a run with attempt number 3 or more the next step
\* is the failed write: remuxStatus = failed, remuxAttempts = 3, remux_error = the
\* text of the error (unless the store rejects this write as well, which leaves the
\* row as it was). In a run with a lower attempt number the run writes nothing
\* more, and the row keeps remuxAttempts = the attempt number and stays processing
\* (until an operator resets it). Either way the run has removed its input and
\* output scratch files when it settles.
C27_CaughtErrorRetryOrFail ==
    [][\A ck \in AllTasks :
          LET c == ck[1]
              k == ck[2]
              t == Task(c, k)
              id == t.video.id IN
          /\ (t.thrownAt = "none" /\ TaskStep(c, k) /\ cycles'[c].tasks[k].thrownAt \in ErrorSteps) =>
                /\ rows' = rows
                /\ cycles'[c].tasks[k].thrownAt = t.pc
                /\ cycles'[c].tasks[k].error # NoError
                /\ cycles'[c].tasks[k].pc = IF t.attemptNumber >= 3 THEN "w_failed" ELSE "unlink_in"
          /\ (t.thrownAt \in ErrorSteps /\ t.pc = "w_failed" /\ TaskStep(c, k)) =>
                \/ /\ rows'[id].remux_status = "failed"
                   /\ rows'[id].remux_attempts = 3
                   /\ rows'[id].metadata.remux_error = t.error
                   /\ cycles'[c].tasks[k].written = Append(t.written, "failed")
                \/ /\ rows' = rows
                   /\ cycles'[c].tasks[k].after = "rejected"
          /\ (t.thrownAt \in ErrorSteps /\ t.attemptNumber < 3) =>
                /\ t.written = <<"processing">>
                /\ rows[id].remux_attempts = t.attemptNumber
                /\ \/ rows[id].remux_status = "processing"
                   \/ rows[id].remux_status = "pending" /\ resetsLeft < MaxResets
                /\ TaskStep(c, k) => rows' = rows
          /\ (t.thrownAt \in ErrorSteps /\ Settled(t)) =>
                ~Exists(InputFile(t)) /\ ~Exists(OutputFile(t))]_vars

C27_Witness ==
    \E c \in Slots : \E k \in TasksOf(c) :
        LET t == Task(c, k) IN
        /\ t.thrownAt = "w_completed"
        /\ t.attemptNumber = 3
        /\ Settled(t)
        /\ t.written = <<"processing", "failed">>
        /\ rows[t.video.id].remux_status = "failed"
        /\ rows[t.video.id].remux_attempts = 3
        /\ rows[t.video.id].metadata.remux_error = MsgStore
        /\ scratch = <<>>

\* C28: the step in which a call of processVideos gets an empty result or an error
\* from its query ends the call: the slot is idle again with no run started, and no
\* row, counter, object, scratch file or process state changes in that step; an
\* empty result always ends the call this way, and so does the tick before it
\* leave the rows alone.
C28_EmptyOrFailedQueryIsNoOp ==
    [][\A c \in Slots :
          /\ QueryReturns(c) =>
                /\ Len(QueryResult) = 0 => cycles'[c] = IdleCycle
                /\ cycles'[c].tasks = <<>> =>
                      /\ "query" \in faults \/ Len(QueryResult) = 0
                      /\ cycles'[c] = IdleCycle
                      /\ rows' = rows /\ stats' = stats
                      /\ storage' = storage /\ scratch' = scratch
                      /\ proc' = proc
          /\ Tick(c) => rows' = rows /\ cycles'[c].tasks = <<>>]_vars

\* a second call has found no eligible row (the first left the job in processing)
\* and has ended with no effect
C28_Witness ==
    /\ faults = {}
    /\ ticksLeft = SeqTicks - 2
    /\ resetsLeft = SeqResets
    /\ \A c \in Slots : cycles[c] = IdleCycle
    /\ Len(QueryResult) = 0
    /\ rows[1].remux_status = "processing"
    /\ rows[1].remux_attempts = 1
    /\ stats = [processed |-> 0, failed |-> 0, skipped |-> 0, totalSaved |-> 0]
    /\ proc.alive

\* the conditions of the discovery query, on a row
MeetsQuery(r) ==
    /\ r.status = "completed"
    /\ r.remux_status = "pending"
    /\ r.remux_attempts < 3
    /\ r.video_duration > 1

\* C29: in the step in which a query hands a page to the processor, every job of
\* the page is the row as it is at that moment, with upload status completed,
\* remuxStatus pending, remuxAttempts < 3 and duration > 1; the page has at most 5
\* jobs, no job twice; a row that meets the conditions and is not in the page is
\* left out only by a full page, and was created no earlier than every job in it.
C29_PageIsOldestEligible ==
    [][\A c \in Slots :
          (QueryReturns(c) /\ cycles'[c].pc = "run") =>
             LET videos == cycles'[c].videos
                 handed == {videos[i].id : i \in 1..Len(videos)} IN
             /\ Len(videos) >= 1 /\ Len(videos) <= 5
             /\ Cardinality(handed) = Len(videos)
             /\ \A i \in 1..Len(videos) :
                   /\ videos[i] = rows[videos[i].id]
                   /\ MeetsQuery(videos[i])
             /\ \A j \in DOMAIN rows :
                   (MeetsQuery(rows[j]) /\ j \notin handed) =>
                      /\ Len(videos) = 5
                      /\ \A i \in 1..Len(videos) : videos[i].created_at <= rows[j].created_at]_vars

\* a page of 5 out of 6 eligible rows, the newest row left out, and the order of
\* creation not that of the ids
C29_Witness ==
    \E c \in Slots :
        /\ cycles[c].pc = "run"
        /\ Len(cycles[c].videos) = 5
        /\ rows[3].created_at = OrderJobs
        /\ \A i \in 1..5 : cycles[c].videos[i].id # 3
        /\ cycles[c].videos[1].id = 5

\* the runs call c has started so far, in the state after the step
StartedAfter(c) == cycles'[c].tasks

\* C30: the page of a call is in ascending order of creation and its runs are
\* started in that order, three at a time: the step that hands over the page starts
\* runs for its first 3 jobs (or all, if fewer), and the next runs are started, for
\* the next 3 jobs of the page, by a step taken when every run started before has
\* settled; so every job of a group was created no later than every job of the
\* next group, and a group is started and settled before the next one is started.
C30_GroupsInCreationOrder ==
    [][\A c \in Slots :
          cycles'[c].pc = "run" =>
             LET videos == cycles'[c].videos
                 before == IF cycles[c].pc = "run" THEN cycles[c].tasks ELSE <<>> IN
             /\ \A i, j \in 1..Len(videos) :
                   i < j => videos[i].created_at <= videos[j].created_at
             /\ \A k \in 1..Len(StartedAfter(c)) : StartedAfter(c)[k].video = videos[k]
             /\ Len(StartedAfter(c)) >= Len(before)
             /\ Len(StartedAfter(c)) > Len(before) =>
                   /\ Len(StartedAfter(c)) = Min(Len(before) + 3, Len(videos))
                   /\ \A k \in 1..Len(before) : Settled(before[k])
                   /\ \A k \in 1..Len(before) : \A n \in (Len(before) + 1)..Len(StartedAfter(c)) :
                         before[k].video.created_at <= StartedAfter(c)[n].video.created_at]_vars

\* the second group of a page has been started and is running, the first has
\* settled, and the order of creation is not that of the ids
C30_Witness ==
    \E c \in Slots :
        /\ cycles[c].pc = "run"
        /\ Len(cycles[c].tasks) = 5
        /\ \A k \in 1..3 : Settled(Task(c, k))
        /\ Task(c, 4).pc = "head" /\ Task(c, 5).pc = "w_claim"
        /\ Task(c, 4).video.id < Task(c, 1).video.id
        /\ Task(c, 3).video.created_at < Task(c, 4).video.created_at

\* C31: executeFFmpeg rejects exactly when the child's exit code is not 0 and
\* "muxing overhead" is nowhere in its output; with exit code 0, or with the
\* marker in the output, it resolves. The message of a rejection is "FFmpeg
\* failed: " followed by the first 500 characters at most of the diagnostic text
\* (stderr, else the output, else the error's own message).
C31_RejectsOnErrorWithoutMarker ==
    LET diagnostic == OrText(tool.stderr, OrText(tool.stdout, tool.errorMessage))
        excerpt == SubSeq(tool.result.message, Len(FailedPrefix) + 1, Len(tool.result.message)) IN
    /\ tool.result.rejected <=> (tool.code # 0 /\ ~Includes(tool.stdout, Marker))
    /\ tool.result.rejected =>
          /\ SubSeq(tool.result.message, 1, Len(FailedPrefix)) = FailedPrefix
          /\ Len(excerpt) <= 500
          /\ Len(excerpt) = (IF Len(diagnostic) <= 500 THEN Len(diagnostic) ELSE 500)
          /\ excerpt = SubSeq(diagnostic, 1, Len(excerpt))

\* a rejection whose diagnostic text, the output, is longer than 500 characters
C31_Witness ==
    /\ tool.code = 1
    /\ tool.stderr = <<>>
    /\ Len(tool.stdout) > 500
    /\ ~Includes(tool.stdout, Marker)
    /\ tool.result.rejected
    /\ Len(tool.result.message) = 515

\* C32: in a run whose job records no duration, the probe step throws nothing and
\* answers 0 when ffprobe fails; when its answer is at most 1 the run's next step
\* is the skip write, with skip_reason and detected_duration = the answer (a write
\* the store rejects leaves the row as it was and goes to the catch block). After
\* the skip write the run only removes its scratch files: it writes nothing more,
\* failed in particular, sends no upload, and has no scratch file left when it
\* settles.
C32_FailedProbeSkips ==
    [][\A ck \in AllTasks :
          LET c == ck[1]
              k == ck[2]
              t == Task(c, k)
              id == t.video.id IN
          t.video.video_duration = 0 =>
            /\ Probe(c, k) =>
                  /\ cycles'[c].tasks[k].thrownAt = "none"
                  /\ cycles'[c].tasks[k].result = "pending"
                  /\ cycles'[c].tasks[k].actualDuration \in {0, storage[t.video.video_url].duration}
                  /\ cycles'[c].tasks[k].pc =
                        IF cycles'[c].tasks[k].actualDuration <= 1 THEN "w_skip2" ELSE "ffmpeg"
                  /\ rows' = rows /\ storage' = storage
            /\ (t.pc = "w_skip2" /\ TaskStep(c, k)) =>
                  /\ storage' = storage /\ scratch' = scratch
                  /\ \/ /\ rows'[id].remux_status = "skipped"
                        /\ rows'[id].metadata.skip_reason = "duration_too_short"
                        /\ rows'[id].metadata.detected_duration = t.actualDuration
                        /\ rows'[id].remux_attempts = rows[id].remux_attempts
                        /\ cycles'[c].tasks[k].written = <<"processing", "skipped">>
                        /\ cycles'[c].tasks[k].outcome = "skipped"
                     \/ /\ rows' = rows
                        /\ cycles'[c].tasks[k].thrownAt = "w_skip2"
            /\ t.outcome = "skipped" =>
                  /\ t.actualDuration <= 1
                  /\ t.written = <<"processing", "skipped">>
                  /\ TaskStep(c, k) =>
                        /\ \/ SkipUnlinkInput(c, k) \/ SkipUnlinkOutput(c, k)
                           \/ UnlinkInput(c, k) \/ UnlinkOutput(c, k)
                        /\ rows' = rows /\ storage' = storage
                  /\ Settled(t) =>
                        /\ t.result = "fulfilled"
                        /\ ~Exists(InputFile(t)) /\ ~Exists(OutputFile(t))]_vars

\* the probe of a 45 second clip failed, and the run has ended with the job skipped
C32_Witness ==
    \E c \in Slots : \E k \in TasksOf(c) :
        LET t == Task(c, k) IN
        /\ t.video.video_duration = 0
        /\ storage[t.video.video_url].duration = 45
        /\ t.actualDuration = 0
        /\ Settled(t)
        /\ t.written = <<"processing", "skipped">>
        /\ rows[t.video.id].remux_status = "skipped"
        /\ rows[t.video.id].metadata.detected_duration = 0
        /\ scratch = <<>>

\* C33: with no operator resetting rows, in every step: a row that is not pending
\* does not become pending again and is in the result of no query; every job a
\* query hands over has remuxAttempts = 0; no run reaches a failed write (none is
\* ever waiting to send one); and every row has remuxAttempts 0 or 1 and is not
\* failed.
C33_NoRetryWithoutReset ==
    [][/\ \A j \in DOMAIN rows :
             /\ rows'[j].remux_attempts \in {0, 1}
             /\ rows'[j].remux_status # "failed"
             /\ rows[j].remux_status # "pending" =>
                   /\ rows'[j].remux_status # "pending"
                   /\ \A i \in 1..Len(QueryResult) : QueryResult[i].id # j
       /\ \A c \in Slots :
             /\ (QueryReturns(c) /\ cycles'[c].pc = "run") =>
                   \A i \in 1..Len(cycles'[c].videos) : cycles'[c].videos[i].remux_attempts = 0
             /\ \A k \in 1..Len(cycles'[c].tasks) :
                   /\ cycles'[c].tasks[k].attemptNumber = 1
                   /\ cycles'[c].tasks[k].pc \notin {"w_failed", "w_failed_nf"}]_vars

\* every tick has fired and every call has returned; the job was claimed once, its
\* run gave up for now, and no later query has picked it up
C33_Witness ==
    /\ ticksLeft = 0
    /\ \A c \in Slots : cycles[c] = IdleCycle
    /\ rows[1].remux_status = "processing"
    /\ rows[1].remux_attempts = 1
    /\ stats.failed = 1
    /\ Len(QueryResult) = 0

TerminalStatuses == {"completed", "skipped", "failed"}

\* C34: no step changes the remuxStatus or the remuxAttempts of a row whose
\* remuxStatus is completed, skipped or failed.
C34_TerminalStatusesAbsorbing ==
    [][\A j \in DOMAIN rows :
          rows[j].remux_status \in TerminalStatuses =>
             /\ rows'[j].remux_status = rows[j].remux_status
             /\ rows'[j].remux_attempts = rows[j].remux_attempts]_vars

\* the places of a run on the pre-check's skip branch and on the probe branch
SkipBranches == {"w_skip", "probe", "w_skip2", "c_unlink_in", "c_unlink_out"}

\* C35: with the scheduler as the only caller, in every step: each job a query
\* hands over records a duration above 1; no run is on the skip branch of the
\* pre-check or on the probe branch, none has written skipped, the skipped counter
\* stays 0 and no row becomes skipped; and a pending row that records duration 0 is
\* in no query result and is left exactly as it is.
C35_SchedulerNeverSkips ==
    [][/\ \A c \in Slots :
             /\ (QueryReturns(c) /\ cycles'[c].pc = "run") =>
                   \A i \in 1..Len(cycles'[c].videos) : cycles'[c].videos[i].video_duration > 1
             /\ \A k \in 1..Len(cycles'[c].tasks) :
                   /\ cycles'[c].origin = "tick"
                   /\ cycles'[c].tasks[k].video.video_duration > 1
                   /\ cycles'[c].tasks[k].pc \notin SkipBranches
                   /\ \A n \in 1..Len(cycles'[c].tasks[k].written) :
                         cycles'[c].tasks[k].written[n] # "skipped"
       /\ stats'.skipped = 0
       /\ \A j \in DOMAIN rows :
             /\ rows[j].remux_status # "skipped" => rows'[j].remux_status # "skipped"
             /\ (rows[j].video_duration = 0 /\ rows[j].remux_status = "pending") =>
                   /\ rows'[j] = rows[j]
                   /\ \A i \in 1..Len(QueryResult) : QueryResult[i].id # j]_vars

\* every tick has fired and every call has returned: the 45 second job is
\* completed, the job without a recorded duration is pending and untouched
C35_Witness ==
    /\ ticksLeft = 0
    /\ \A c \in Slots : cycles[c] = IdleCycle
    /\ rows[1].video_duration = 0
    /\ rows[1].remux_status = "pending"
    /\ rows[1].remux_attempts = 0
    /\ rows[2].video_duration = 45
    /\ rows[2].remux_status = "completed"
    /\ stats.skipped = 0

\* the awaited steps of a run from the existence check to the completed write, and
\* for each the steps a run can come to it from
MainLine ==
    [ head |-> {"w_claim"}, get |-> {"head"}, stat_in |-> {"get"}, probe |-> {"stat_in"},
      ffmpeg |-> {"stat_in", "probe"}, stat_out |-> {"ffmpeg"}, read_out |-> {"stat_out"},
      put |-> {"read_out"}, w_completed |-> {"put"} ]

\* C36: a run comes to each step of the line existence check, download, (probe,)
\* remux, upload, completed write from the step before it only; it is at the
\* completed write through the step in which its upload put the remuxed file at
\* the job's key; it writes completed, with remuxedAt and remuxedSizeBytes, at
\* that place only; and remuxedAt and remuxedSizeBytes of a row change in no step
\* but one in which a run of that job writes completed.
C36_CompletedOnlyAfterUpload ==
    [][/\ \A ck \in AllTasks :
             LET c == ck[1]
                 k == ck[2]
                 t == Task(c, k)
                 id == t.video.id IN
             (cycles'[c].pc = "run" /\ k <= Len(cycles'[c].tasks)
                 /\ cycles'[c].tasks[k] # t /\ cycles'[c].tasks[k].video = t.video) =>
                LET u == cycles'[c].tasks[k] IN
                /\ (u.pc \in DOMAIN MainLine /\ u.pc # t.pc) => t.pc \in MainLine[u.pc]
                /\ (u.pc = "w_completed" /\ t.pc # "w_completed") =>
                      /\ UploadToR2(c, k)
                      /\ storage'[t.video.video_url].present
                      /\ storage'[t.video.video_url].remuxed
                      /\ storage'[t.video.video_url].size = t.body
                /\ u.written = Append(t.written, "completed") =>
                      /\ t.pc = "w_completed"
                      /\ rows'[id].remux_status = "completed"
                      /\ rows'[id].remuxed_at = TRUE
                      /\ rows'[id].remuxed_size = t.outputSize
       /\ \A j \in DOMAIN rows :
             (rows'[j].remuxed_at # rows[j].remuxed_at \/ rows'[j].remuxed_size # rows[j].remuxed_size) =>
                \E ck \in AllTasks :
                   /\ Task(ck[1], ck[2]).video.id = j
                   /\ Task(ck[1], ck[2]).pc = "w_completed"
                   /\ WriteCompleted(ck[1], ck[2])
                   /\ cycles'[ck[1]].tasks[ck[2]].written = Append(Task(ck[1], ck[2]).written, "completed")]_vars

\* a run has written completed: the object at the job's key is the remuxed file
\* the run uploaded, and the row carries remuxedAt and its size
C36_Witness ==
    \E c \in Slots : \E k \in TasksOf(c) :
        LET t == Task(c, k) IN
        /\ t.outcome = "completed"
        /\ t.written = <<"processing", "completed">>
        /\ storage[t.video.video_url].remuxed
        /\ storage[t.video.video_url].size = t.outputSize
        /\ rows[t.video.id].remux_status = "completed"
        /\ rows[t.video.id].remuxed_at = TRUE
        /\ rows[t.video.id].remuxed_size = t.outputSize

\* a run of the call's current group waits for an ffmpeg that never exits
Hung(c) == \E k \in TasksOf(c) : Task(c, k).pc = "hung"

\* the jobs of the call's page that are in a group after the current one
LaterJobs(c) ==
    {cycles[c].videos[n].id : n \in (Len(cycles[c].tasks) + 1)..Len(cycles[c].videos)}

\* C37: while a run of a processVideos call waits for an ffmpeg that never exits,
\* the run stays unsettled, the call's wait for the group cannot end and the call
\* starts no run of a later group; a row of a later group changes only through a
\* run of another call; a tick with ticks left is not held back; and the query of
\* another call returns every job of the later groups that is still pending.
C37_HangHoldsLaterGroups ==
    [][\A c \in Slots : Hung(c) =>
          /\ \A k \in TasksOf(c) : Task(c, k).pc = "hung" =>
                cycles'[c].tasks[k] = Task(c, k) /\ ~Settled(Task(c, k))
          /\ ~ ENABLED GroupSettled(c)
          /\ cycles'[c].pc = "run"
          /\ cycles'[c].videos = cycles[c].videos
          /\ cycles'[c].i = cycles[c].i
          /\ Len(cycles'[c].tasks) = Len(cycles[c].tasks)
          /\ \A j \in LaterJobs(c) :
                /\ \A k \in TasksOf(c) : Task(c, k).video.id # j
                /\ rows'[j] # rows[j] =>
                      \E d \in Slots \ {c} : \E k \in TasksOf(d) :
                          Task(d, k).video.id = j /\ TaskStep(d, k)
          /\ (ticksLeft # 0 /\ \E d \in Slots : Free(d)) => \E d \in Slots : ENABLED Tick(d)
          /\ \A d \in Slots \ {c} :
                QueryReturns(d) =>
                   \A j \in LaterJobs(c) :
                      rows[j].remux_status = "pending" =>
                         \E n \in 1..Len(cycles'[d].videos) : cycles'[d].videos[n].id = j]_vars

\* a call waits for its first group, one run of it hung; the job of its second
\* group has been selected on its own by a later call, which has completed it
C37_Witness ==
    \E c \in Slots : \E d \in Slots \ {c} :
        /\ Hung(c)
        /\ Len(cycles[c].videos) = PageJobs
        /\ Len(cycles[c].tasks) = BatchSize
        /\ LaterJobs(c) = {PageJobs}
        /\ cycles[d].origin = "tick"
        /\ Len(cycles[d].videos) = 1
        /\ cycles[d].videos[1].id = PageJobs
        /\ Task(d, 1).outcome = "completed"
        /\ rows[PageJobs].remux_status = "completed"

====
